---- MODULE Spec2Model ----
(***************************************************************************)
(* PanierClair content script: barcode extraction, retailer adapters, the  *)
(* fetch-and-decorate pipeline and the filter engine (applyFilters).       *)
(*                                                                         *)
(* Text is a sequence of one-character strings, so that toLowerCase,       *)
(* parseInt and the regular expressions of the source are computed on the  *)
(* characters and not assumed.                                             *)
(***************************************************************************)
EXTENDS Integers, Sequences, FiniteSets, TLC

VARIABLES
    panierclairEnabled,   \* content script: let panierclairEnabled
    panierclairCompact,   \* content script: let panierclairCompact
    currentFilters,       \* content script: let currentFilters
    currentStore,         \* content script: let currentStore ("Intermarche", "Carrefour", "none")
    initialized,          \* the chrome.storage.local.get callback has run
    observing,            \* the MutationObserver is connected to document.body
    debounceTimer,        \* the timer of debounce() is pending
    cards,                \* the product cards of the page (DOM), by position
    bodyCompact,          \* document.body carries the class panierclair-compact
    styleInjected,        \* the <style id="panierclair-filter-styles"> element exists
    pending,              \* getProductsInfo lookups sent and not yet answered
    filterTimers,         \* number of pending setTimeout(applyFilters) callbacks
    scanCount,            \* number of BaseStore.processProductGrid runs so far
    extracted,            \* result of the last direct call of the two URL extractors
    results,              \* array returned by the last getProductElementsAndBarcodes call
    now,                  \* the clock, in milliseconds since the script started
    timer,                \* debounce(): let timer, the id of the last setTimeout
    timeouts,             \* the pending setTimeout calls of debounce(), each with its due time
    notifiedAt,           \* the times at which the observer notified the debounced callback
    ranAt,                \* the times at which the debounced callback ran
    dom                   \* the element tree of one Intermarche card, where placement is modelled

\* The clock and the timer table are left alone where time is not modelled.
debounceVars == <<now, timer, timeouts, notifiedAt, ranAt>>

vars == <<panierclairEnabled, panierclairCompact, currentFilters, currentStore,
          initialized, observing, debounceTimer, cards, bodyCompact, styleInjected,
          pending, filterTimers, scanCount, extracted, results, now, timer, timeouts,
          notifiedAt, ranAt, dom>>

-----------------------------------------------------------------------------
(* Text helpers: String.prototype.toLowerCase, parseInt, character classes *)

DigitChars == <<"0", "1", "2", "3", "4", "5", "6", "7", "8", "9">>

UpperChars == <<"A", "B", "C", "D", "E", "F", "G", "H", "I", "J", "K", "L", "M",
                "N", "O", "P", "Q", "R", "S", "T", "U", "V", "W", "X", "Y", "Z">>

LowerChars == <<"a", "b", "c", "d", "e", "f", "g", "h", "i", "j", "k", "l", "m",
                "n", "o", "p", "q", "r", "s", "t", "u", "v", "w", "x", "y", "z">>

\* \d of a JavaScript regular expression: [0-9]
IsDigit(c) == \E i \in 1..Len(DigitChars) : DigitChars[i] = c

DigitVal(c) == (CHOOSE i \in 1..Len(DigitChars) : DigitChars[i] = c) - 1

\* \w of a JavaScript regular expression: [A-Za-z0-9_]
IsWordChar(c) ==
    \/ IsDigit(c)
    \/ c = "_"
    \/ \E i \in 1..Len(UpperChars) : UpperChars[i] = c \/ LowerChars[i] = c

LowerChar(c) ==
    IF \E i \in 1..Len(UpperChars) : UpperChars[i] = c
    THEN LowerChars[CHOOSE i \in 1..Len(UpperChars) : UpperChars[i] = c]
    ELSE c

ToLowerCase(s) == [i \in 1..Len(s) |-> LowerChar(s[i])]

AllDigits(s) == \A i \in 1..Len(s) : IsDigit(s[i])

\* The value of a run of decimal digits.
RECURSIVE DigitsValue(_)
DigitsValue(s) ==
    IF Len(s) = 0 THEN 0
    ELSE 10 * DigitsValue(SubSeq(s, 1, Len(s) - 1)) + DigitVal(s[Len(s)])

\* Length of the longest prefix of s made of digits.
RECURSIVE DigitPrefixLen(_)
DigitPrefixLen(s) ==
    IF Len(s) > 0 /\ IsDigit(s[1]) THEN 1 + DigitPrefixLen(Tail(s)) ELSE 0

RECURSIVE TrimLeft(_)
TrimLeft(s) == IF Len(s) > 0 /\ s[1] = " " THEN TrimLeft(Tail(s)) ELSE s

\* parseInt(s) in radix 10: leading blanks skipped, an optional sign, then the
\* longest run of digits. << >> stands for NaN, <<n>> for the number n.
ParseInt(s) ==
    LET t    == TrimLeft(s)
        neg  == Len(t) > 0 /\ t[1] = "-"
        body == IF Len(t) > 0 /\ (t[1] = "-" \/ t[1] = "+") THEN Tail(t) ELSE t
        n    == DigitPrefixLen(body)
    IN  IF n = 0 THEN << >>
        ELSE LET v == DigitsValue(SubSeq(body, 1, n))
             IN  <<IF neg THEN 0 - v ELSE v>>

IsNaN(x) == x = << >>

-----------------------------------------------------------------------------
(* Score vocabulary                                                        *)

ANY            == <<"a", "n", "y">>
UNKNOWN        == <<"u", "n", "k", "n", "o", "w", "n">>
NOT_APPLICABLE == <<"n", "o", "t", "-", "a", "p", "p", "l", "i", "c", "a", "b", "l", "e">>
NA             == <<"n", "a">>
EMPTY          == << >>

\* Mutant of nutriOrder: the ranking written worst-first.
nutriOrder_reversed(k) ==
    CASE k = <<"a">> -> <<5>>
      [] k = <<"b">> -> <<4>>
      [] k = <<"c">> -> <<3>>
      [] k = <<"d">> -> <<2>>
      [] k = <<"e">> -> <<1>>
      [] OTHER -> << >>

\* const nutriOrder = { a: 1, b: 2, c: 3, d: 4, e: 5 }; << >> stands for undefined.
nutriOrder(k) ==
    CASE k = <<"a">> -> <<1>>
      [] k = <<"b">> -> <<2>>
      [] k = <<"c">> -> <<3>>
      [] k = <<"d">> -> <<4>>
      [] k = <<"e">> -> <<5>>
      [] OTHER -> << >>

\* const ecoOrder = { 'a+': 0.5, a: 1, b: 2, c: 3, d: 4, e: 5, f: 6 }, every
\* value doubled to stay in the integers; << >> stands for undefined.
ecoOrder(k) ==
    CASE k = <<"a", "+">> -> <<1>>
      [] k = <<"a">> -> <<2>>
      [] k = <<"b">> -> <<4>>
      [] k = <<"c">> -> <<6>>
      [] k = <<"d">> -> <<8>>
      [] k = <<"e">> -> <<10>>
      [] k = <<"f">> -> <<12>>
      [] OTHER -> << >>

IsUndefined(x) == x = << >>

-----------------------------------------------------------------------------
(* Filter engine: the body of applyFilters for one product element          *)

\* const isUnknownScore = (score) => ...
isUnknownScore(score) ==
    LET normalized == ToLowerCase(score)
    IN  normalized = UNKNOWN \/ normalized = NOT_APPLICABLE \/ normalized = NA

\* Mutant of NutriscoreCheck: the nutriscoreOnly branch is missing.
NutriscoreCheck_alwaysOrBetter(nutriScore, f) ==
    IF f.nutriscore # ANY
    THEN LET normalizedNutri == ToLowerCase(nutriScore)
             filterNutri     == ToLowerCase(f.nutriscore)
         IN  IF normalizedNutri = UNKNOWN \/ normalizedNutri = NOT_APPLICABLE
                \/ normalizedNutri = NA
             THEN FALSE
             ELSE LET productNutriValue == nutriOrder(normalizedNutri)
                      filterNutriValue  == nutriOrder(filterNutri)
                  IN  ~(\/ IsUndefined(productNutriValue)
                        \/ IsUndefined(filterNutriValue)
                        \/ productNutriValue[1] > filterNutriValue[1])
    ELSE TRUE

\* "Check Nutriscore filter": TRUE when the block leaves matchesFilter true.
NutriscoreCheck(nutriScore, f) ==
    IF f.nutriscore # ANY
    THEN LET normalizedNutri == ToLowerCase(nutriScore)
             filterNutri     == ToLowerCase(f.nutriscore)
         IN  IF normalizedNutri = UNKNOWN \/ normalizedNutri = NOT_APPLICABLE
                \/ normalizedNutri = NA
             THEN FALSE
             ELSE IF f.nutriscoreOnly
             THEN normalizedNutri = filterNutri
             ELSE LET productNutriValue == nutriOrder(normalizedNutri)
                      filterNutriValue  == nutriOrder(filterNutri)
                  IN  ~(\/ IsUndefined(productNutriValue)
                        \/ IsUndefined(filterNutriValue)
                        \/ productNutriValue[1] > filterNutriValue[1])
    ELSE TRUE

\* Mutant of EcoscoreCheck: an unknown score passes the axis.
EcoscoreCheck_unknownPasses(ecoScore, f) ==
    IF f.ecoscore # ANY
    THEN LET normalizedEco == ToLowerCase(ecoScore)
             filterEco     == ToLowerCase(f.ecoscore)
         IN  IF normalizedEco = UNKNOWN \/ normalizedEco = NOT_APPLICABLE
                \/ normalizedEco = NA
             THEN TRUE
             ELSE IF f.ecoscoreOnly
             THEN normalizedEco = filterEco
             ELSE LET productEcoValue == ecoOrder(normalizedEco)
                      filterEcoValue  == ecoOrder(filterEco)
                  IN  ~(\/ IsUndefined(productEcoValue)
                        \/ IsUndefined(filterEcoValue)
                        \/ productEcoValue[1] > filterEcoValue[1])
    ELSE TRUE

\* "Check Ecoscore filter"
EcoscoreCheck(ecoScore, f) ==
    IF f.ecoscore # ANY
    THEN LET normalizedEco == ToLowerCase(ecoScore)
             filterEco     == ToLowerCase(f.ecoscore)
         IN  IF normalizedEco = UNKNOWN \/ normalizedEco = NOT_APPLICABLE
                \/ normalizedEco = NA
             THEN FALSE
             ELSE IF f.ecoscoreOnly
             THEN normalizedEco = filterEco
             ELSE LET productEcoValue == ecoOrder(normalizedEco)
                      filterEcoValue  == ecoOrder(filterEco)
                  IN  ~(\/ IsUndefined(productEcoValue)
                        \/ IsUndefined(filterEcoValue)
                        \/ productEcoValue[1] > filterEcoValue[1])
    ELSE TRUE

\* "Check Nova filter"
NovaCheck(nova, f) ==
    IF f.nova # ANY
    THEN LET normalizedNova == ToLowerCase(nova)
             filterNova     == ToLowerCase(f.nova)
         IN  IF normalizedNova = UNKNOWN \/ normalizedNova = NOT_APPLICABLE
                \/ normalizedNova = NA
             THEN FALSE
             ELSE IF f.novaOnly
             THEN normalizedNova = filterNova
             ELSE LET productNovaValue == ParseInt(normalizedNova)
                      filterNovaValue  == ParseInt(filterNova)
                  IN  ~(\/ IsNaN(productNovaValue)
                        \/ IsNaN(filterNovaValue)
                        \/ productNovaValue[1] > filterNovaValue[1])
    ELSE TRUE

\* let matchesFilter = true; then the three blocks, the second and third
\* guarded by matchesFilter.
matchesFilter(scores, f) ==
    IF ~NutriscoreCheck(scores.nutri, f) THEN FALSE
    ELSE IF ~EcoscoreCheck(scores.eco, f) THEN FALSE
    ELSE NovaCheck(scores.nova, f)

\* Mutant of hasUnknownForActiveFilter: only the nutrition axis is looked at.
hasUnknownForActiveFilter_nutriOnly(scores, f) ==
    f.nutriscore # ANY /\ isUnknownScore(ToLowerCase(scores.nutri))

\* Mutant of hasUnknownForActiveFilter: the "filter is active" guards are missing.
hasUnknownForActiveFilter_anyAxis(scores, f) ==
    \/ isUnknownScore(ToLowerCase(scores.nutri))
    \/ isUnknownScore(ToLowerCase(scores.eco))
    \/ isUnknownScore(ToLowerCase(scores.nova))

hasUnknownForActiveFilter(scores, f) ==
    \/ (f.nutriscore # ANY /\ isUnknownScore(ToLowerCase(scores.nutri)))
    \/ (f.ecoscore # ANY /\ isUnknownScore(ToLowerCase(scores.eco)))
    \/ (f.nova # ANY /\ isUnknownScore(ToLowerCase(scores.nova)))

\* Mutant of shouldGreyOut: a mismatch is greyed out without looking at the
\* unknown scores.
shouldGreyOut_mismatchAlwaysGrey(scores, f) ==
    IF ~matchesFilter(scores, f)
    THEN TRUE
    ELSE hasUnknownForActiveFilter(scores, f) /\ f.greyFilterUnknown

shouldGreyOut(scores, f) ==
    IF ~matchesFilter(scores, f)
    THEN IF hasUnknownForActiveFilter(scores, f)
         THEN f.greyFilterUnknown
         ELSE TRUE
    ELSE IF hasUnknownForActiveFilter(scores, f) /\ f.greyFilterUnknown
    THEN TRUE
    ELSE FALSE

-----------------------------------------------------------------------------
(* Optional values: << >> is null / undefined, <<x>> is the value x         *)

Null == << >>

Some(x) == <<x>>

\* JavaScript truthiness of a string-or-null: null and '' are falsy.
Truthy(o) == o # Null /\ o[1] # EMPTY

\* No time has passed and debounce() has not been called.
DebounceIdle ==
    /\ now = 0
    /\ timer = Null
    /\ timeouts = {}
    /\ notifiedAt = << >>
    /\ ranAt = << >>

-----------------------------------------------------------------------------
(* shared/utils.ts: barcode extraction from a URL                           *)

MinBarcodeDigits == 8

MaxBarcodeDigits == 14

\* s.split(ch)[0]: the part of s before the first ch (all of s without ch).
SplitFirst(s, ch) ==
    IF \E i \in 1..Len(s) : s[i] = ch
    THEN SubSeq(s, 1, (CHOOSE i \in 1..Len(s) :
                          s[i] = ch /\ \A j \in 1..(i - 1) : s[j] # ch) - 1)
    ELSE s

\* url.match(/\/(\d+)$/): the start positions at which the expression matches.
SimpleMatches(url) ==
    {k \in 1..Len(url) :
        /\ url[k] = "/"
        /\ Len(url) - k >= 1
        /\ AllDigits(SubSeq(url, k + 1, Len(url)))}

Leftmost(S) == CHOOSE k \in S : \A j \in S : k <= j

extractBarcodeFromURL(url) ==
    LET match == SimpleMatches(url)
    IN  IF match # {}
        THEN Some(SubSeq(url, Leftmost(match) + 1, Len(url)))
        ELSE Null

\* cleanUrl.match(/-(\d{8,14})$/)
CarrefourMatches(cleanUrl) ==
    {k \in 1..Len(cleanUrl) :
        /\ cleanUrl[k] = "-"
        /\ Len(cleanUrl) - k >= MinBarcodeDigits
        /\ Len(cleanUrl) - k <= MaxBarcodeDigits
        /\ AllDigits(SubSeq(cleanUrl, k + 1, Len(cleanUrl)))}

\* Mutant of extractBarcodeFromCarrefourURL: the query and the fragment are
\* not stripped before matching.
extractBarcodeFromCarrefourURL_unstripped(url) ==
    LET match == CarrefourMatches(url)
    IN  IF match # {}
        THEN Some(SubSeq(url, Leftmost(match) + 1, Len(url)))
        ELSE Null

extractBarcodeFromCarrefourURL(url) ==
    LET cleanUrl == SplitFirst(SplitFirst(url, "?"), "#")
        match    == CarrefourMatches(cleanUrl)
    IN  IF match # {}
        THEN Some(SubSeq(cleanUrl, Leftmost(match) + 1, Len(cleanUrl)))
        ELSE Null

\* https://fr.openfoodfacts.org/produit/${barcode}
createOpenFoodFactsURL(barcode) ==
    <<"h", "t", "t", "p", "s", ":", "/", "/", "f", "r", ".", "o", "p", "e", "n",
      "f", "o", "o", "d", "f", "a", "c", "t", "s", ".", "o", "r", "g", "/",
      "p", "r", "o", "d", "u", "i", "t", "/">> \o barcode

-----------------------------------------------------------------------------
(* The page: product cards                                                  *)
(*                                                                          *)
(* A card is the root element of one product listing:                       *)
(*   tag         "layout" ([data-testid="product-layout"], Intermarche) or  *)
(*               "article" (article[class*="product-list-card-plp-grid"])   *)
(*   id          the id attribute of the root ('' when absent)              *)
(*   anchor      class of the card's anchor: "productCard__link",           *)
(*               "product-card-click-wrapper", "plain", or "none"           *)
(*   href        the anchor's href attribute, Null when absent              *)
(*   html        the rest of the card's markup                              *)
(*   hasPrice    a .stime-product--footer__prices block exists              *)
(*   loaderAdded dataset.loaderAdded        processed   dataset.processed   *)
(*   loaders     number of .loader elements in the card                     *)
(*   panels      the .panierclair-info elements in the card, in DOM order   *)
(*   scores      the data-panierclair-* attributes, Null when absent        *)
(*   filteredOut the class panierclair-filtered-out                         *)
(*   attached    the card is in the document; a page that renders its grid  *)
(*               late attaches its cards after the script has started       *)

\* document.URL, to which an empty href attribute resolves.
PageURL == <<"h", "t", "t", "p", "s", ":", "/", "/", "s", "h", "o", "p", "/", "r", "a", "y", "o", "n">>

Quote == "\""

PanelHTML(panel) == <<Quote>> \o createOpenFoodFactsURL(panel.barcode) \o <<Quote>>

RECURSIVE PanelsHTML(_)
PanelsHTML(panels) ==
    IF panels = << >> THEN << >>
    ELSE PanelHTML(Head(panels)) \o PanelsHTML(Tail(panels))

AnchorHTML(card) ==
    IF card.anchor = "none" THEN << >>
    ELSE IF card.href = Null THEN <<"<", "a", ">">>
    ELSE <<"<", "a", " ", "h", "r", "e", "f", "=", Quote>> \o card.href[1] \o <<Quote, ">">>

\* productElement.innerHTML: the serialised children of the card root.
InnerHTML(card) == AnchorHTML(card) \o card.html \o PanelsHTML(card.panels)

\* s contains sub (the attribute selector [href*="..."]).
Contains(s, sub) ==
    \E i \in 1..(Len(s) - Len(sub) + 1) : SubSeq(s, i, i + Len(sub) - 1) = sub

-----------------------------------------------------------------------------
(* stores/carrefour.ts                                                      *)

\* htmlContent.match(/\b\d{n}\b/g): the start positions of the matches.
StandaloneRuns(htmlContent, n) ==
    {i \in 1..(Len(htmlContent) - n + 1) :
        /\ AllDigits(SubSeq(htmlContent, i, i + n - 1))
        /\ (i = 1 \/ ~IsWordChar(htmlContent[i - 1]))
        /\ (i + n > Len(htmlContent) \/ ~IsWordChar(htmlContent[i + n]))}

Ean13Digits == 13

Ean8Digits == 8

\* Mutant of extractBarcodeFromArticleHTML: the 8-digit pattern is tried first.
extractBarcodeFromArticleHTML_shortFirst(card) ==
    LET htmlContent         == InnerHTML(card)
        barcodeMatches      == StandaloneRuns(htmlContent, Ean13Digits)
        shortBarcodeMatches == StandaloneRuns(htmlContent, Ean8Digits)
    IN  IF shortBarcodeMatches # {}
        THEN Some(SubSeq(htmlContent, Leftmost(shortBarcodeMatches),
                         Leftmost(shortBarcodeMatches) + Ean8Digits - 1))
        ELSE IF barcodeMatches # {}
        THEN Some(SubSeq(htmlContent, Leftmost(barcodeMatches),
                         Leftmost(barcodeMatches) + Ean13Digits - 1))
        ELSE Null

extractBarcodeFromArticleHTML(card) ==
    LET htmlContent         == InnerHTML(card)
        barcodeMatches      == StandaloneRuns(htmlContent, Ean13Digits)
        shortBarcodeMatches == StandaloneRuns(htmlContent, Ean8Digits)
    IN  IF barcodeMatches # {}
        THEN Some(SubSeq(htmlContent, Leftmost(barcodeMatches),
                         Leftmost(barcodeMatches) + Ean13Digits - 1))
        ELSE IF shortBarcodeMatches # {}
        THEN Some(SubSeq(htmlContent, Leftmost(shortBarcodeMatches),
                         Leftmost(shortBarcodeMatches) + Ean8Digits - 1))
        ELSE Null

\* /^\d{8,14}$/.test(articleId)
IsArticleIdBarcode(articleId) ==
    /\ Len(articleId) >= MinBarcodeDigits
    /\ Len(articleId) <= MaxBarcodeDigits
    /\ AllDigits(articleId)

\* Mutant of CarrefourBarcode: the link URL is tried before the article id.
CarrefourBarcode_urlFirst(card) ==
    LET href   == IF card.anchor = "product-card-click-wrapper" THEN card.href ELSE Null
        byUrl  == IF Truthy(href) THEN extractBarcodeFromCarrefourURL(href[1]) ELSE Null
        byId   == IF Truthy(byUrl) THEN byUrl
                  ELSE IF card.id # EMPTY /\ IsArticleIdBarcode(card.id)
                  THEN Some(card.id) ELSE Null
        byHtml == IF Truthy(byId) THEN byId
                  ELSE extractBarcodeFromArticleHTML(card)
    IN  IF Truthy(byHtml) THEN byHtml ELSE Null

\* The body of the forEach of CarrefourStore.getProductElementsAndBarcodes:
\* the barcode of one card, Null when the card is not pushed to results.
CarrefourBarcode(card) ==
    LET byId   == IF card.id # EMPTY /\ IsArticleIdBarcode(card.id)
                  THEN Some(card.id) ELSE Null
        href   == IF card.anchor = "product-card-click-wrapper" THEN card.href ELSE Null
        byUrl  == IF Truthy(byId) THEN byId
                  ELSE IF Truthy(href) THEN extractBarcodeFromCarrefourURL(href[1])
                  ELSE Null
        byHtml == IF Truthy(byUrl) THEN byUrl
                  ELSE extractBarcodeFromArticleHTML(card)
    IN  IF Truthy(byHtml) THEN byHtml ELSE Null

-----------------------------------------------------------------------------
(* stores/intermarche.ts                                                    *)

ProduitPath == <<"/", "p", "r", "o", "d", "u", "i", "t", "/">>

ProductPath == <<"/", "p", "r", "o", "d", "u", "c", "t", "/">>

\* The anchor found by the two querySelector calls, as "found" or "none".
IntermarcheLinkFound(card) ==
    \/ card.anchor = "productCard__link"
    \/ /\ card.anchor # "none"
       /\ card.href # Null
       /\ (Contains(card.href[1], ProduitPath) \/ Contains(card.href[1], ProductPath))

\* productLink.getAttribute('href') || productLink.href
IntermarcheHref(card) ==
    IF Truthy(card.href) THEN card.href
    ELSE IF card.href = Null THEN Some(EMPTY)
    ELSE Some(PageURL)

\* The body of the forEach of IntermarcheStore.getProductElementsAndBarcodes.
IntermarcheBarcode(card) ==
    IF ~IntermarcheLinkFound(card) THEN Null
    ELSE LET href == IntermarcheHref(card)
         IN  IF ~Truthy(href) THEN Null
             ELSE extractBarcodeFromURL(href[1])

-----------------------------------------------------------------------------
(* The adapters, by store name                                              *)

StoreNames == <<"Intermarche", "Carrefour">>

CardSelected(store, card) ==
    /\ card.attached
    /\ IF store = "Intermarche" THEN card.tag = "layout" ELSE card.tag = "article"

\* isActive(): document.querySelector(<store selector>) !== null
isActive(store, cs) == \E i \in 1..Len(cs) : CardSelected(store, cs[i])

CardBarcode(store, card) ==
    IF store = "Intermarche" THEN IntermarcheBarcode(card) ELSE CarrefourBarcode(card)

\* getProductElementsAndBarcodes(): the cards the store's selector finds, in
\* document order, each with its barcode; cards without a barcode are left out.
\* Mutant of EnumerateFrom: the scan ends at the first card without a barcode.
RECURSIVE EnumerateFrom_stopAtFirstMiss(_, _, _)
EnumerateFrom_stopAtFirstMiss(store, cs, i) ==
    IF i > Len(cs) THEN << >>
    ELSE LET barcode == IF CardSelected(store, cs[i])
                        THEN CardBarcode(store, cs[i]) ELSE Null
         IN  IF barcode # Null
             THEN <<[productElement |-> i, barcode |-> barcode[1]]>>
                      \o EnumerateFrom_stopAtFirstMiss(store, cs, i + 1)
             ELSE << >>

RECURSIVE EnumerateFrom(_, _, _)
EnumerateFrom(store, cs, i) ==
    IF i > Len(cs) THEN << >>
    ELSE LET barcode == IF CardSelected(store, cs[i])
                        THEN CardBarcode(store, cs[i]) ELSE Null
             rest    == EnumerateFrom(store, cs, i + 1)
         IN  IF barcode # Null
             THEN <<[productElement |-> i, barcode |-> barcode[1]]>> \o rest
             ELSE rest

getProductElementsAndBarcodes(store, cs) == EnumerateFrom(store, cs, 1)

\* insertLoader: Intermarche inserts the loader before the price block or
\* appends it; Carrefour's implementation is empty.
insertLoader(store, card) ==
    IF store = "Intermarche"
    THEN [card EXCEPT !.loaders = @ + 1]
    ELSE card

\* insertProductInfo: both stores leave the info element inside the card.
insertProductInfo(store, card, infoElement) ==
    [card EXCEPT !.panels = Append(@, infoElement)]

-----------------------------------------------------------------------------
(* shared/ui-components.ts                                                  *)

\* createProductInfo: the .panierclair-info element, reduced to the barcode of
\* its links, the variant of its images and its style.display.
createProductInfo(productInfo, isCompact) ==
    [barcode |-> productInfo.barcode,
     variant |-> IF isCompact THEN "icon" ELSE "full",
     display |-> ""]

\* Mutant of processProductElement: the dataset.processed guard is missing.
processProductElement_unguarded(store, card, productInfo, isCompact) ==
    LET infoElement == createProductInfo(productInfo, isCompact)
        marked      == [card EXCEPT !.scores =
                           Some([nutri |-> ToLowerCase(productInfo.nutriScore),
                                 eco   |-> ToLowerCase(productInfo.ecoScore),
                                 nova  |-> ToLowerCase(productInfo.novaGroup)])]
        inserted    == insertProductInfo(store, marked, infoElement)
    IN  [inserted EXCEPT !.processed = TRUE]

processProductElement(store, card, productInfo, isCompact) ==
    IF card.processed THEN card
    ELSE LET infoElement == createProductInfo(productInfo, isCompact)
             marked      == [card EXCEPT !.scores =
                                Some([nutri |-> ToLowerCase(productInfo.nutriScore),
                                      eco   |-> ToLowerCase(productInfo.ecoScore),
                                      nova  |-> ToLowerCase(productInfo.novaGroup)])]
             inserted    == insertProductInfo(store, marked, infoElement)
         IN  [inserted EXCEPT !.processed = TRUE]

-----------------------------------------------------------------------------
(* stores/base-store.ts: BaseStore.processProductGrid                       *)

\* Mutant of AddLoaders: the dataset.loaderAdded guard is missing.
RECURSIVE AddLoaders_unguarded(_, _, _)
AddLoaders_unguarded(store, cs, products) ==
    IF products = << >> THEN cs
    ELSE LET i    == Head(products).productElement
             next == [cs EXCEPT ![i] =
                        [insertLoader(store, cs[i]) EXCEPT !.loaderAdded = TRUE]]
         IN  AddLoaders_unguarded(store, next, Tail(products))

\* "Add loaders to all product elements"
RECURSIVE AddLoaders(_, _, _)
AddLoaders(store, cs, products) ==
    IF products = << >> THEN cs
    ELSE LET i    == Head(products).productElement
             next == IF ~cs[i].loaderAdded
                     THEN [cs EXCEPT ![i] =
                             [insertLoader(store, cs[i]) EXCEPT !.loaderAdded = TRUE]]
                     ELSE cs
         IN  AddLoaders(store, next, Tail(products))

\* response.products.find(product => product.barcode === barcode)
FindProduct(infos, barcode) ==
    IF \E k \in 1..Len(infos) : infos[k].barcode = barcode
    THEN Some(infos[CHOOSE k \in 1..Len(infos) :
                      /\ infos[k].barcode = barcode
                      /\ \A j \in 1..(k - 1) : infos[j].barcode # barcode])
    ELSE Null

\* Mutant of ApplyResponse: the loader is removed only when the product is found.
RECURSIVE ApplyResponse_keepLoaderOnMiss(_, _, _, _, _)
ApplyResponse_keepLoaderOnMiss(store, cs, products, infos, isCompact) ==
    IF products = << >> THEN cs
    ELSE LET i           == Head(products).productElement
             productInfo == FindProduct(infos, Head(products).barcode)
             unloaded    == IF cs[i].loaders > 0
                            THEN [cs[i] EXCEPT !.loaders = @ - 1]
                            ELSE cs[i]
             done        == IF productInfo # Null
                            THEN processProductElement(store, unloaded, productInfo[1], isCompact)
                            ELSE cs[i]
         IN  ApplyResponse_keepLoaderOnMiss(store, [cs EXCEPT ![i] = done],
                                            Tail(products), infos, isCompact)

\* The forEach of the sendMessage callback, when response.products is set.
RECURSIVE ApplyResponse(_, _, _, _, _)
ApplyResponse(store, cs, products, infos, isCompact) ==
    IF products = << >> THEN cs
    ELSE LET i           == Head(products).productElement
             productInfo == FindProduct(infos, Head(products).barcode)
             unloaded    == IF cs[i].loaders > 0
                            THEN [cs[i] EXCEPT !.loaders = @ - 1]
                            ELSE cs[i]
             done        == IF productInfo # Null
                            THEN processProductElement(store, unloaded, productInfo[1], isCompact)
                            ELSE unloaded
         IN  ApplyResponse(store, [cs EXCEPT ![i] = done], Tail(products), infos, isCompact)

\* The sendMessage callback: response is Null (undefined, or without products)
\* or <<the products array>>.
LookupCallback(cs, lookup, response) ==
    IF response # Null
    THEN ApplyResponse(lookup.store, cs, lookup.products, response[1], lookup.isCompact)
    ELSE cs

-----------------------------------------------------------------------------
(* content script: applyFilters and findProductContainer                    *)

\* Mutant of applyFilters: the class is added and never removed while enabled.
applyFilters_addOnly(cs, enabled, f) ==
    [i \in 1..Len(cs) |->
        IF cs[i].scores = Null THEN cs[i]
        ELSE IF ~enabled THEN [cs[i] EXCEPT !.filteredOut = FALSE]
        ELSE [cs[i] EXCEPT !.filteredOut = @ \/ shouldGreyOut(cs[i].scores[1], f)]]

\* applyFilters over the elements carrying data-panierclair-nutriscore; the
\* container of a card's root element is the root itself for both stores.
applyFilters(cs, enabled, f) ==
    [i \in 1..Len(cs) |->
        IF cs[i].scores = Null THEN cs[i]
        ELSE IF ~enabled THEN [cs[i] EXCEPT !.filteredOut = FALSE]
        ELSE [cs[i] EXCEPT !.filteredOut = shouldGreyOut(cs[i].scores[1], f)]]

\* Mutant of OrAny: only a missing value is replaced (x ?? 'any').
OrAny_missingOnly(x) == IF x = Null THEN ANY ELSE x[1]

\* x || 'any' on an optional string
OrAny(x) == IF Truthy(x) THEN x[1] ELSE ANY

\* x || false, and x !== undefined ? x : false, on an optional boolean
OrFalse(x) == IF x = Null THEN FALSE ELSE x[1]

\* The object literal both the storage callback and the filters message build.
NormalizeFilters(given) ==
    [nutriscore        |-> OrAny(given.nutriscore),
     ecoscore          |-> OrAny(given.ecoscore),
     nova              |-> OrAny(given.nova),
     nutriscoreOnly    |-> OrFalse(given.nutriscoreOnly),
     ecoscoreOnly      |-> OrFalse(given.ecoscoreOnly),
     novaOnly          |-> OrFalse(given.novaOnly),
     greyFilterUnknown |-> OrFalse(given.greyFilterUnknown)]

\* savedFilters === undefined: every field read through ?. is undefined.
NoFilters ==
    [nutriscore |-> Null, ecoscore |-> Null, nova |-> Null, nutriscoreOnly |-> Null,
     ecoscoreOnly |-> Null, novaOnly |-> Null, greyFilterUnknown |-> Null]

DefaultFilters == NormalizeFilters(NoFilters)

-----------------------------------------------------------------------------
(* content script: the handlers                                             *)

MaxScans == 3

MaxPending == 2

NumCards == 2

\* Mutant of initializeStore: the last active store of the list wins.
initializeStore_lastMatch(cs) ==
    IF \E k \in 1..Len(StoreNames) : isActive(StoreNames[k], cs)
    THEN StoreNames[CHOOSE k \in 1..Len(StoreNames) :
                       /\ isActive(StoreNames[k], cs)
                       /\ \A j \in (k + 1)..Len(StoreNames) : ~isActive(StoreNames[j], cs)]
    ELSE "none"

\* initializeStore(): stores.find(store => store.isActive()), "none" for null.
initializeStore(cs) ==
    IF \E k \in 1..Len(StoreNames) : isActive(StoreNames[k], cs)
    THEN StoreNames[CHOOSE k \in 1..Len(StoreNames) :
                       /\ isActive(StoreNames[k], cs)
                       /\ \A j \in 1..(k - 1) : ~isActive(StoreNames[j], cs)]
    ELSE "none"

\* BaseStore.processProductGrid up to and including sendMessage: the cards
\* with their loaders, and the lookups in flight.
StoreProcessProductGrid(store, cs, pend, isCompact) ==
    LET products == getProductElementsAndBarcodes(store, cs)
    IN  [cards   |-> AddLoaders(store, cs, products),
         pending |-> IF Len(products) > 0
                     THEN Append(pend, [store |-> store, products |-> products,
                                        isCompact |-> isCompact])
                     ELSE pend,
         ran     |-> TRUE]

\* Mutant of processProductGrid: without a store, the store is looked up again.
processProductGrid_lazyStore(store, enabled, cs, pend, isCompact) ==
    LET found == IF store = "none" THEN initializeStore(cs) ELSE store
    IN  IF found # "none" /\ enabled
        THEN StoreProcessProductGrid(found, cs, pend, isCompact)
        ELSE [cards |-> cs, pending |-> pend, ran |-> FALSE]

\* processProductGrid() of the content script; ran tells whether the store's
\* pipeline ran and a setTimeout(applyFilters, 1000) was scheduled.
processProductGrid(store, enabled, cs, pend, isCompact) ==
    IF store # "none" /\ enabled
    THEN StoreProcessProductGrid(store, cs, pend, isCompact)
    ELSE [cards |-> cs, pending |-> pend, ran |-> FALSE]

\* document.querySelectorAll('.panierclair-info').forEach(el => el.style.display = ...)
SetPanelsDisplay(cs, show) ==
    [i \in 1..Len(cs) |->
        [cs[i] EXCEPT !.panels =
            [k \in 1..Len(cs[i].panels) |->
                [cs[i].panels[k] EXCEPT !.display = IF show THEN "" ELSE "none"]]]]

\* Mutant of RemoveAllFilters: the toggle-off branch leaves the classes alone.
RemoveAllFilters_keep(cs) == cs

\* The loop of the toggle handler's else branch.
RemoveAllFilters(cs) == applyFilters(cs, FALSE, DefaultFilters)

\* A childList mutation under document.body: loaders and panels come and go.
ChildListChanged(before, after) ==
    \E i \in 1..Len(before) :
        \/ before[i].loaders # after[i].loaders
        \/ Len(before[i].panels) # Len(after[i].panels)

\* Mutant of ObservedBy: the extension's own mutations are not delivered.
ObservedBy_unobserved(wasObserving, before, after, armed) == armed

\* The observer's callback runs after a handler that changed the children of
\* a card while the observer was connected, and arms the debounce timer.
ObservedBy(wasObserving, before, after, armed) ==
    IF wasObserving /\ ChildListChanged(before, after) THEN TRUE ELSE armed

\* The callback of chrome.storage.local.get([...]) at the end of the script.
StorageLoaded(storedEnabled, storedCompact, storedFilters) ==
    /\ ~initialized
    /\ scanCount < MaxScans
    /\ Len(pending) < MaxPending
    /\ LET enabled == IF storedEnabled # Null THEN storedEnabled[1] ELSE TRUE
           compact == IF storedCompact # Null THEN storedCompact[1] ELSE FALSE
           shown   == SetPanelsDisplay(cards, enabled)
           store   == initializeStore(shown)
           grid    == processProductGrid(store, enabled, shown, pending, compact)
       IN  /\ panierclairEnabled' = enabled
           /\ panierclairCompact' = compact
           /\ currentFilters' = NormalizeFilters(storedFilters)
           /\ currentStore' = store
           /\ initialized' = TRUE
           /\ observing' = TRUE
           /\ cards' = grid.cards
           /\ pending' = grid.pending
           /\ debounceTimer' = ObservedBy(TRUE, shown, grid.cards, debounceTimer)
           /\ scanCount' = IF grid.ran THEN scanCount + 1 ELSE scanCount
           /\ filterTimers' = IF enabled /\ store # "none"
                              THEN filterTimers + 2 ELSE filterTimers
    /\ UNCHANGED <<bodyCompact, styleInjected, extracted, results,
                   debounceVars, dom>>

\* onMessage, message.type === 'panierclair-toggle'
ToggleMessage(enabledField) ==
    /\ scanCount < MaxScans
    /\ Len(pending) < MaxPending
    /\ LET show  == IF enabledField # Null THEN enabledField[1] ELSE ~panierclairEnabled
           shown == SetPanelsDisplay(cards, show)
           grid  == processProductGrid(currentStore, show, shown, pending,
                                       panierclairCompact)
       IN  /\ panierclairEnabled' = show
           /\ IF show
              THEN /\ cards' = applyFilters(grid.cards, show, currentFilters)
                   /\ pending' = grid.pending
                   /\ scanCount' = IF grid.ran THEN scanCount + 1 ELSE scanCount
                   /\ filterTimers' = IF grid.ran THEN filterTimers + 1 ELSE filterTimers
                   /\ styleInjected' = TRUE
                   /\ debounceTimer' = ObservedBy(observing, shown, grid.cards, debounceTimer)
              ELSE /\ cards' = RemoveAllFilters(shown)
                   /\ UNCHANGED <<pending, scanCount, filterTimers, styleInjected,
                                  debounceTimer>>
    /\ UNCHANGED <<panierclairCompact, currentFilters, currentStore, initialized,
                   observing, bodyCompact, extracted, results,
                   debounceVars, dom>>

\* onMessage, message.type === 'panierclair-compact'
CompactMessage(compactField) ==
    /\ scanCount < MaxScans
    /\ Len(pending) < MaxPending
    /\ LET compact == IF compactField # Null THEN compactField[1] ELSE ~panierclairCompact
           grid    == processProductGrid(currentStore, panierclairEnabled, cards,
                                         pending, compact)
       IN  /\ panierclairCompact' = compact
           /\ bodyCompact' = compact
           /\ IF panierclairEnabled
              THEN /\ cards' = applyFilters(grid.cards, panierclairEnabled, currentFilters)
                   /\ pending' = grid.pending
                   /\ scanCount' = IF grid.ran THEN scanCount + 1 ELSE scanCount
                   /\ filterTimers' = IF grid.ran THEN filterTimers + 1 ELSE filterTimers
                   /\ styleInjected' = TRUE
                   /\ debounceTimer' = ObservedBy(observing, cards, grid.cards, debounceTimer)
              ELSE UNCHANGED <<cards, pending, scanCount, filterTimers, styleInjected,
                               debounceTimer>>
    /\ UNCHANGED <<panierclairEnabled, currentFilters, currentStore, initialized,
                   observing, extracted, results,
                   debounceVars, dom>>

\* onMessage, message.type === 'panierclair-filters'; filtersField is Null
\* when the message carries no filters.
FiltersMessage(filtersField) ==
    /\ IF filtersField # Null
       THEN /\ currentFilters' = NormalizeFilters(filtersField[1])
            /\ cards' = applyFilters(cards, panierclairEnabled,
                                     NormalizeFilters(filtersField[1]))
            /\ styleInjected' = (styleInjected \/ panierclairEnabled)
       ELSE UNCHANGED <<currentFilters, cards, styleInjected>>
    /\ UNCHANGED <<panierclairEnabled, panierclairCompact, currentStore, initialized,
                   observing, debounceTimer, bodyCompact, pending, filterTimers,
                   scanCount, extracted, results,
                   debounceVars, dom>>

\* The page itself changes the children of document.body.
PageMutation ==
    /\ observing
    /\ ~debounceTimer
    /\ debounceTimer' = TRUE
    /\ UNCHANGED <<panierclairEnabled, panierclairCompact, currentFilters, currentStore,
                   initialized, observing, cards, bodyCompact, styleInjected, pending,
                   filterTimers, scanCount, extracted, results,
                   debounceVars, dom>>

\* The page renders its product grid: the cards enter the document.
PageRenders ==
    /\ \E i \in 1..Len(cards) : ~cards[i].attached
    /\ cards' = [i \in 1..Len(cards) |-> [cards[i] EXCEPT !.attached = TRUE]]
    /\ debounceTimer' = (observing \/ debounceTimer)
    /\ UNCHANGED <<panierclairEnabled, panierclairCompact, currentFilters, currentStore,
                   initialized, observing, bodyCompact, styleInjected, pending,
                   filterTimers, scanCount, extracted, results,
                   debounceVars, dom>>

\* The function handed to debounce: disconnect, scan when the extension is
\* enabled on a supported page, reconnect.
ObserverCallback ==
    /\ debounceTimer
    /\ LET grid == processProductGrid(currentStore, panierclairEnabled, cards, pending,
                                      panierclairCompact)
       IN  /\ cards' = grid.cards
           /\ pending' = grid.pending
           /\ scanCount' = IF grid.ran THEN scanCount + 1 ELSE scanCount
           /\ filterTimers' = IF grid.ran THEN filterTimers + 1 ELSE filterTimers
    /\ debounceTimer' = FALSE
    /\ observing' = TRUE
    /\ UNCHANGED <<panierclairEnabled, panierclairCompact, currentFilters, currentStore,
                   initialized, bodyCompact, styleInjected, extracted, results,
                   debounceVars, dom>>

\* The debounced observer callback runs, 200 ms after the last notification.
DebounceFires ==
    /\ scanCount < MaxScans
    /\ Len(pending) < MaxPending
    /\ ObserverCallback

RemoveAt(seq, k) == SubSeq(seq, 1, k - 1) \o SubSeq(seq, k + 1, Len(seq))

\* The callback of chrome.runtime.sendMessage({type: 'getProductsInfo', ...})
\* of the k-th lookup in flight runs with the given response.
LookupResponse(k, response) ==
    /\ k \in 1..Len(pending)
    /\ cards' = LookupCallback(cards, pending[k], response)
    /\ pending' = RemoveAt(pending, k)
    /\ debounceTimer' = ObservedBy(observing, cards, cards', debounceTimer)
    /\ UNCHANGED <<panierclairEnabled, panierclairCompact, currentFilters, currentStore,
                   initialized, observing, bodyCompact, styleInjected, filterTimers,
                   scanCount, extracted, results,
                   debounceVars, dom>>

\* A setTimeout(() => applyFilters(), ...) callback runs.
ApplyFiltersTimer ==
    /\ filterTimers > 0
    /\ filterTimers' = filterTimers - 1
    /\ cards' = applyFilters(cards, panierclairEnabled, currentFilters)
    /\ styleInjected' = (styleInjected \/ panierclairEnabled)
    /\ UNCHANGED <<panierclairEnabled, panierclairCompact, currentFilters, currentStore,
                   initialized, observing, debounceTimer, bodyCompact, pending,
                   scanCount, extracted, results,
                   debounceVars, dom>>

-----------------------------------------------------------------------------
(* Specification SpecFilter: applyFilters on one decorated card             *)
(*                                                                          *)
(* The initial states are the states the content script is in once the      *)
(* storage callback has loaded a saved configuration, a lookup has answered *)
(* and processProductElement has decorated the card, with one applyFilters  *)
(* timer pending. Score records and configurations are drawn with one axis  *)
(* ranging over its whole alphabet (known grades in both letter cases,      *)
(* unranked values, the empty score, the three unknown sentinels) and the   *)
(* other two over a best grade, a worst grade and an unknown.               *)

BarcodeA == <<"3", "2", "5", "6", "2", "2", "0", "1", "1", "0", "0", "1", "3">>

BarcodeB == <<"3", "2", "5", "0", "3", "9", "1", "8", "0", "4", "6", "5", "8">>

NutriAlphabet ==
    {<<"a">>, <<"B">>, <<"c">>, <<"d">>, <<"e">>, <<"f">>, EMPTY,
     UNKNOWN, <<"N", "A">>, NOT_APPLICABLE}

EcoAlphabet ==
    {<<"a", "+">>, <<"a">>, <<"B">>, <<"c">>, <<"d">>, <<"e">>, <<"f">>, <<"g">>,
     EMPTY, <<"U", "n", "k", "n", "o", "w", "n">>, NA, NOT_APPLICABLE}

NovaAlphabet ==
    {<<"1">>, <<"2">>, <<"3">>, <<"4">>, <<"1", "0">>, <<"x">>, EMPTY,
     UNKNOWN, NA, NOT_APPLICABLE}

NutriFilterAlphabet == {ANY, <<"a">>, <<"b">>, <<"C">>, <<"d">>, <<"e">>, <<"f">>}

EcoFilterAlphabet ==
    {ANY, <<"A", "+">>, <<"a">>, <<"b">>, <<"c">>, <<"d">>, <<"e">>, <<"f">>, <<"g">>}

NovaFilterAlphabet == {ANY, <<"1">>, <<"2">>, <<"3">>, <<"4">>, <<"x">>}

NutriCorners == {<<"a">>, <<"e">>, UNKNOWN}

EcoCorners == {<<"a", "+">>, <<"f">>, UNKNOWN}

NovaCorners == {<<"1">>, <<"4">>, UNKNOWN}

NutriFilterCorners == {ANY, <<"c">>}

EcoFilterCorners == {ANY, <<"c">>}

NovaFilterCorners == {ANY, <<"2">>}

\* The score record the resolver returned for the card.
ScoreRecord(n, e, v) ==
    [barcode |-> BarcodeA, nutriScore |-> n, ecoScore |-> e, novaGroup |-> v]

\* The configuration found in storage.
SavedFilters(fn, fe, fv, no, eo, vo, g) ==
    [nutriscore |-> Some(fn), ecoscore |-> Some(fe), nova |-> Some(fv),
     nutriscoreOnly |-> Some(no), ecoscoreOnly |-> Some(eo),
     novaOnly |-> Some(vo), greyFilterUnknown |-> Some(g)]

UndecoratedCard(tag, id, anchor, href, html, hasPrice) ==
    [tag |-> tag, id |-> id, anchor |-> anchor, href |-> href, html |-> html,
     hasPrice |-> hasPrice, loaderAdded |-> FALSE, processed |-> FALSE,
     loaders |-> 0, panels |-> << >>, scores |-> Null, filteredOut |-> FALSE,
     attached |-> TRUE]

IntermarcheCard(barcode) ==
    UndecoratedCard("layout", EMPTY, "productCard__link",
                    Some(ProduitPath \o barcode), EMPTY, TRUE)

InitFilterWith(info, saved) ==
    /\ panierclairEnabled = TRUE
    /\ panierclairCompact = FALSE
    /\ currentFilters = NormalizeFilters(saved)
    /\ currentStore = "Intermarche"
    /\ initialized = TRUE
    /\ observing = TRUE
    /\ debounceTimer = FALSE
    /\ cards = <<processProductElement("Intermarche",
                     [IntermarcheCard(info.barcode) EXCEPT !.loaderAdded = TRUE],
                     info, FALSE)>>
    /\ bodyCompact = FALSE
    /\ styleInjected = FALSE
    /\ pending = << >>
    /\ filterTimers = 1
    /\ scanCount = 1
    /\ extracted = Null
    /\ results = Null
    /\ DebounceIdle
    /\ dom = Null

InitFilterOver(N, E, V, FN, FE, FV) ==
    \E n \in N, e \in E, v \in V, fn \in FN, fe \in FE, fv \in FV,
       no \in BOOLEAN, eo \in BOOLEAN, vo \in BOOLEAN, g \in BOOLEAN :
        InitFilterWith(ScoreRecord(n, e, v), SavedFilters(fn, fe, fv, no, eo, vo, g))

InitFilter ==
    \/ InitFilterOver(NutriAlphabet, EcoCorners, NovaCorners,
                      NutriFilterAlphabet, EcoFilterCorners, NovaFilterCorners)
    \/ InitFilterOver(NutriCorners, EcoAlphabet, NovaCorners,
                      NutriFilterCorners, EcoFilterAlphabet, NovaFilterCorners)
    \/ InitFilterOver(NutriCorners, EcoCorners, NovaAlphabet,
                      NutriFilterCorners, EcoFilterCorners, NovaFilterAlphabet)


NextFilter == ApplyFiltersTimer

SpecFilter == InitFilter /\ [][NextFilter]_vars

-----------------------------------------------------------------------------
(* Specification Spec: the content script on a page of NumCards cards       *)
(*                                                                          *)
(* The initial states are the states right after the script was evaluated:  *)
(* the message listener is registered and the storage read is outstanding.  *)
(* The page may mix the markup of both stores.                              *)

CardTemplates ==
    {IntermarcheCard(BarcodeA),
     UndecoratedCard("layout", EMPTY, "none", Null, EMPTY, TRUE),
     UndecoratedCard("article", BarcodeB, "product-card-click-wrapper", Null, EMPTY, FALSE),
     UndecoratedCard("article", EMPTY, "none", Null, EMPTY, FALSE)}

Pages ==
    {[i \in 1..NumCards |-> [page[i] EXCEPT !.attached = rendered]] :
        page \in [1..NumCards -> CardTemplates], rendered \in BOOLEAN}

StoredSwitches == {Null, Some(TRUE), Some(FALSE)}

FilterConfigurations ==
    {SavedFilters(<<"b">>, ANY, ANY, FALSE, FALSE, FALSE, FALSE),
     [nutriscore |-> Some(EMPTY), ecoscore |-> Some(<<"b">>), nova |-> Null,
      nutriscoreOnly |-> Null, ecoscoreOnly |-> Some(TRUE), novaOnly |-> Null,
      greyFilterUnknown |-> Some(TRUE)]}

ScoreTriples ==
    {[nutri |-> <<"A">>, eco |-> UNKNOWN, nova |-> <<"4">>],
     [nutri |-> <<"c">>, eco |-> <<"b">>, nova |-> <<"1">>]}

\* response.products for a lookup: a record for each requested barcode in
\* hits, in request order.
ProductInfos(lookup, hits, t) ==
    LET Hit(e) == e.barcode \in hits
        found  == SelectSeq(lookup.products, Hit)
    IN  [k \in 1..Len(found) |->
            [barcode |-> found[k].barcode, nutriScore |-> t.nutri,
             ecoScore |-> t.eco, novaGroup |-> t.nova]]

RequestedBarcodes(lookup) ==
    {lookup.products[k].barcode : k \in 1..Len(lookup.products)}

Init ==
    /\ panierclairEnabled = FALSE
    /\ panierclairCompact = FALSE
    /\ currentFilters = DefaultFilters
    /\ currentStore = "none"
    /\ initialized = FALSE
    /\ observing = FALSE
    /\ debounceTimer = FALSE
    /\ cards \in Pages
    /\ bodyCompact = FALSE
    /\ styleInjected = FALSE
    /\ pending = << >>
    /\ filterTimers = 0
    /\ scanCount = 0
    /\ extracted = Null
    /\ results = Null
    /\ DebounceIdle
    /\ dom = Null

Next ==
    \/ \E e \in StoredSwitches, c \in StoredSwitches,
          f \in {NoFilters} \cup FilterConfigurations : StorageLoaded(e, c, f)
    \/ \E e \in StoredSwitches : ToggleMessage(e)
    \/ \E c \in StoredSwitches : CompactMessage(c)
    \/ \E f \in {Null} \cup {Some(g) : g \in FilterConfigurations} : FiltersMessage(f)
    \/ PageMutation
    \/ PageRenders
    \/ DebounceFires
    \/ \E k \in 1..Len(pending) :
          \/ LookupResponse(k, Null)
          \/ \E hits \in SUBSET RequestedBarcodes(pending[k]), t \in ScoreTriples :
                LookupResponse(k, Some(ProductInfos(pending[k], hits, t)))
    \/ ApplyFiltersTimer

Spec == Init /\ [][Next]_vars

-----------------------------------------------------------------------------
(* Vocabulary of the filter claims, stated on the card's stored scores and  *)
(* on currentFilters, independently of the definitions above                *)

Axes == {"nutri", "eco", "nova"}

AxisScore(card, a) ==
    CASE a = "nutri" -> card.scores[1].nutri
      [] a = "eco"   -> card.scores[1].eco
      [] a = "nova"  -> card.scores[1].nova

AxisFilter(a) ==
    CASE a = "nutri" -> currentFilters.nutriscore
      [] a = "eco"   -> currentFilters.ecoscore
      [] a = "nova"  -> currentFilters.nova

AxisOnly(a) ==
    CASE a = "nutri" -> currentFilters.nutriscoreOnly
      [] a = "eco"   -> currentFilters.ecoscoreOnly
      [] a = "nova"  -> currentFilters.novaOnly

\* Better-to-worse grades of each axis; Nova grades are the integers written
\* in decimal, so that the position of a numeral is its value.
AxisRanking(a) ==
    CASE a = "nutri" -> <<<<"a">>, <<"b">>, <<"c">>, <<"d">>, <<"e">>>>
      [] a = "eco"   -> <<<<"a", "+">>, <<"a">>, <<"b">>, <<"c">>, <<"d">>, <<"e">>, <<"f">>>>
      [] a = "nova"  -> <<<<"1">>, <<"2">>, <<"3">>, <<"4">>, <<"5">>, <<"6">>, <<"7">>,
                          <<"8">>, <<"9">>, <<"1", "0">>>>

SameLetter(c, d) ==
    c = d \/ \E i \in 1..Len(UpperChars) : {c, d} = {UpperChars[i], LowerChars[i]}

SameIgnoringCase(s, t) ==
    Len(s) = Len(t) /\ \A i \in 1..Len(s) : SameLetter(s[i], t[i])

\* Rank of a grade on an axis, 0 when the grade has none.
Rank(a, v) ==
    LET order == AxisRanking(a)
    IN  IF \E i \in 1..Len(order) : SameIgnoringCase(order[i], v)
        THEN CHOOSE i \in 1..Len(order) : SameIgnoringCase(order[i], v)
        ELSE 0

UnknownSentinels == {UNKNOWN, NOT_APPLICABLE, NA}

AxisActive(a) == AxisFilter(a) # ANY

AxisUnknown(card, a) == \E u \in UnknownSentinels : SameIgnoringCase(AxisScore(card, a), u)

OrBetter(card, a) ==
    /\ Rank(a, AxisScore(card, a)) > 0
    /\ Rank(a, AxisFilter(a)) > 0
    /\ Rank(a, AxisScore(card, a)) <= Rank(a, AxisFilter(a))

ExactlyEqual(card, a) == SameIgnoringCase(AxisScore(card, a), AxisFilter(a))

\* An active axis with a known score matches: by equality in "only" mode, by
\* rank otherwise.
KnownAxisMatches(card, a) ==
    IF AxisOnly(a) THEN ExactlyEqual(card, a) ELSE OrBetter(card, a)

\* Section 4.3, steps 1 to 4, for one axis.
AxisMatches(card, a) ==
    \/ ~AxisActive(a)
    \/ (~AxisUnknown(card, a) /\ KnownAxisMatches(card, a))

ProductMatches(card) == \A a \in Axes : AxisMatches(card, a)

\* The mismatch is due to unknown scores only: every axis that fails has an
\* unknown score.
MismatchSolelyUnknown(card) ==
    /\ ~ProductMatches(card)
    /\ \A a \in Axes : ~AxisMatches(card, a) => AxisUnknown(card, a)

Decorated == {i \in 1..Len(cards) : cards[i].scores # Null}

\* applyFilters has run on the current configuration (SpecFilter).
FiltersApplied == initialized /\ panierclairEnabled /\ filterTimers = 0

-----------------------------------------------------------------------------
(* Claims on the filter engine, checked under SpecFilter                    *)

\* C1 (as stated): a product that does not match the filter is greyed out,
\* unless the mismatch is solely due to unknown scores on active axes and
\* greyFilterUnknown is false; so a product failing an active axis with a
\* known, worse score is greyed out whatever the other axes carry.
C1_MismatchGreyedUnlessSolelyUnknown ==
    FiltersApplied =>
        \A i \in Decorated :
            (/\ ~ProductMatches(cards[i])
             /\ ~(MismatchSolelyUnknown(cards[i]) /\ ~currentFilters.greyFilterUnknown))
            => cards[i].filteredOut

\* C1 (amended): a product that does not match the filter is greyed out,
\* unless some active axis carries an unknown score and greyFilterUnknown is
\* false; then it is not greyed out, even when another active axis fails with
\* a known, worse score.
C1_MismatchGreyedUnlessUnknownOnActiveAxis ==
    FiltersApplied =>
        \A i \in Decorated :
            ~ProductMatches(cards[i]) =>
                (cards[i].filteredOut =
                    (\/ ~(\E a \in Axes : AxisActive(a) /\ AxisUnknown(cards[i], a))
                     \/ currentFilters.greyFilterUnknown))

C1_Witness ==
    /\ FiltersApplied
    /\ ~currentFilters.greyFilterUnknown
    /\ currentFilters.nutriscore = <<"c">>
    /\ ~currentFilters.nutriscoreOnly
    /\ currentFilters.ecoscore = <<"c">>
    /\ cards[1].scores # Null
    /\ cards[1].scores[1].nutri = <<"e">>
    /\ cards[1].scores[1].eco = UNKNOWN
    /\ ~cards[1].filteredOut

\* C2: with exactly one active axis and an unknown score on that axis, the
\* card is greyed out exactly when greyFilterUnknown is set, whatever the
\* axis and its "only" flag.
C2_SingleAxisUnknownFollowsCheckbox ==
    FiltersApplied =>
        \A i \in Decorated : \A a \in Axes :
            (/\ AxisActive(a)
             /\ \A b \in Axes \ {a} : ~AxisActive(b)
             /\ AxisUnknown(cards[i], a))
            => (cards[i].filteredOut = currentFilters.greyFilterUnknown)

C2_Witness ==
    /\ FiltersApplied
    /\ currentFilters.ecoscore = <<"b">>
    /\ currentFilters.nutriscore = ANY
    /\ currentFilters.nova = ANY
    /\ currentFilters.ecoscoreOnly
    /\ ~currentFilters.greyFilterUnknown
    /\ cards[1].scores # Null
    /\ cards[1].scores[1].eco = UNKNOWN
    /\ ~cards[1].filteredOut

\* C3: when the three axis filters are 'any', no product is greyed out,
\* whatever its scores and whatever the four flags.
C3_AllAnyGreysNothing ==
    FiltersApplied =>
        \A i \in Decorated :
            (\A a \in Axes : ~AxisActive(a)) => ~cards[i].filteredOut

C3_Witness ==
    /\ FiltersApplied
    /\ \A a \in Axes : ~AxisActive(a)
    /\ currentFilters.greyFilterUnknown
    /\ currentFilters.nutriscoreOnly
    /\ cards[1].scores # Null
    /\ cards[1].scores[1].nutri = EMPTY
    /\ cards[1].scores[1].eco = UNKNOWN
    /\ ~cards[1].filteredOut

C5_OnlyIsCaseInsensitiveEquality ==
    FiltersApplied =>
        \A i \in Decorated :
            (/\ \A a \in Axes : AxisActive(a) => ~AxisUnknown(cards[i], a)
             /\ \E a \in Axes : AxisActive(a) /\ AxisOnly(a))
            => (cards[i].filteredOut =
                    (\E a \in Axes : AxisActive(a) /\ ~KnownAxisMatches(cards[i], a)))

C5_Witness ==
    /\ FiltersApplied
    /\ currentFilters.nutriscore = <<"b">>
    /\ currentFilters.nutriscoreOnly
    /\ currentFilters.ecoscore = ANY
    /\ currentFilters.nova = ANY
    /\ cards[1].scores # Null
    /\ cards[1].scores[1].nutri = <<"a">>
    /\ cards[1].filteredOut

-----------------------------------------------------------------------------
(* Specification SpecExtract: the URL extractors and the enumeration on one *)
(* card                                                                     *)
(*                                                                          *)
(* The card's link URL is  prefix . separator . digit run . suffix  with    *)
(* digit runs of every length from 0 to MaxDigitRun.                        *)

MaxDigitRun == 16

DigitRun(n) == [i \in 1..n |-> DigitChars[(i % 10) + 1]]

UrlPrefixes ==
    {EMPTY,
     <<"/", "p", "/", "l", "a", "i", "t">>,
     <<"/", "p", "r", "o", "d", "u", "i", "t", "/", "p", "a", "i", "n", "-", "d", "e">>,
     <<"/", "p", "/", "a", "-", "1", "2", "3", "4", "5", "6", "7", "8">>}

UrlSeparators == {EMPTY, <<"-">>, <<"/">>}

UrlSuffixes ==
    {EMPTY,
     <<"?", "q", "=", "1">>,
     <<"#", "t", "o", "p">>,
     <<"#", "x", "?", "y">>,
     <<"?", "a", "-", "1", "2", "3", "4", "5", "6", "7", "8">>,
     <<"a">>,
     <<"-">>,
     <<"/">>}

CardIds == {EMPTY, <<"1", "2", "3", "4", "5", "6", "7">>}

CardMarkups == {EMPTY, <<"r", "e", "f", " ">> \o BarcodeB \o <<" ">>}

StoreTag(store) == IF store = "Intermarche" THEN "layout" ELSE "article"

StoreAnchor(store) ==
    IF store = "Intermarche" THEN "productCard__link" ELSE "product-card-click-wrapper"

InitExtract ==
    \E prefix \in UrlPrefixes, sep \in UrlSeparators, n \in 0..MaxDigitRun,
       suffix \in UrlSuffixes, id \in CardIds, html \in CardMarkups,
       store \in {"Intermarche", "Carrefour"} :
        /\ panierclairEnabled = FALSE
        /\ panierclairCompact = FALSE
        /\ currentFilters = DefaultFilters
        /\ currentStore = store
        /\ initialized = FALSE
        /\ observing = FALSE
        /\ debounceTimer = FALSE
        /\ cards = <<UndecoratedCard(StoreTag(store), id, StoreAnchor(store),
                                     Some(prefix \o sep \o DigitRun(n) \o suffix),
                                     html, TRUE)>>
        /\ bodyCompact = FALSE
        /\ styleInjected = FALSE
        /\ pending = << >>
        /\ filterTimers = 0
        /\ scanCount = 0
        /\ extracted = Null
        /\ results = Null
        /\ DebounceIdle
        /\ dom = Null

\* The two extractors are called on the card's link URL.
CallExtractors ==
    /\ extracted = Null
    /\ extracted' = Some([url       |-> cards[1].href[1],
                          simple    |-> extractBarcodeFromURL(cards[1].href[1]),
                          carrefour |-> extractBarcodeFromCarrefourURL(cards[1].href[1])])
    /\ UNCHANGED <<panierclairEnabled, panierclairCompact, currentFilters, currentStore,
                   initialized, observing, debounceTimer, cards, bodyCompact,
                   styleInjected, pending, filterTimers, scanCount, results,
                   debounceVars, dom>>

\* currentStore.getProductElementsAndBarcodes() is called on the page.
CallEnumerate ==
    /\ results = Null
    /\ results' = Some(getProductElementsAndBarcodes(currentStore, cards))
    /\ UNCHANGED <<panierclairEnabled, panierclairCompact, currentFilters, currentStore,
                   initialized, observing, debounceTimer, cards, bodyCompact,
                   styleInjected, pending, filterTimers, scanCount, extracted,
                   debounceVars, dom>>

NextExtract == CallExtractors \/ CallEnumerate

SpecExtract == InitExtract /\ [][NextExtract]_vars

-----------------------------------------------------------------------------
(* Claims on barcode extraction, checked under SpecExtract                  *)

\* A barcode as the data model defines it: 8 to 14 decimal digits.
IsBarcode(s) == Len(s) >= 8 /\ Len(s) <= 14 /\ AllDigits(s)

\* Index of the last '-' of s, 0 when s has none.
LastHyphen(s) ==
    IF \E i \in 1..Len(s) : s[i] = "-"
    THEN CHOOSE i \in 1..Len(s) : s[i] = "-" /\ \A j \in (i + 1)..Len(s) : s[j] # "-"
    ELSE 0

AfterLastHyphen(s) == SubSeq(s, LastHyphen(s) + 1, Len(s))

\* s cut at its first '?' or '#'.
WithoutQueryAndFragment(s) ==
    IF \E i \in 1..Len(s) : s[i] \in {"?", "#"}
    THEN SubSeq(s, 1, (CHOOSE i \in 1..Len(s) :
                          /\ s[i] \in {"?", "#"}
                          /\ \A j \in 1..(i - 1) : s[j] \notin {"?", "#"}) - 1)
    ELSE s

\* The suffixed style: the run of 8 to 14 digits that follows the last '-' and
\* ends the stripped URL, Null when there is no such run.
SuffixedBarcode(url) ==
    LET clean == WithoutQueryAndFragment(url)
    IN  IF LastHyphen(clean) > 0 /\ IsBarcode(AfterLastHyphen(clean))
        THEN Some(AfterLastHyphen(clean))
        ELSE Null

\* C8 (as stated): every barcode an adapter's getProductElementsAndBarcodes
\* returns is a string of 8 to 14 decimal digits, for both adapters.
C8_EnumeratedBarcodesWellFormed ==
    results # Null =>
        \A k \in 1..Len(results[1]) : IsBarcode(results[1][k].barcode)

C10_InvalidSuffixYieldsNull ==
    extracted # Null =>
        (~(/\ AllDigits(AfterLastHyphen(extracted[1].url))
           /\ Len(AfterLastHyphen(extracted[1].url)) >= 8
           /\ Len(AfterLastHyphen(extracted[1].url)) <= 13)
         => (extracted[1].carrefour = Null /\ extracted[1].simple = Null))

\* C11 (as stated): for an Intermarche card whose link href ends in '-' and a
\* run of digits, getProductElementsAndBarcodes returns one entry for the card,
\* with that trailing digit run as its barcode.
C11_IntermarcheHyphenSuffixExtracted ==
    (/\ results # Null
     /\ currentStore = "Intermarche"
     /\ LastHyphen(cards[1].href[1]) > 0
     /\ AfterLastHyphen(cards[1].href[1]) # EMPTY
     /\ AllDigits(AfterLastHyphen(cards[1].href[1])))
    => results[1] = <<[productElement |-> 1,
                       barcode |-> AfterLastHyphen(cards[1].href[1])]>>

-----------------------------------------------------------------------------
(* Specification SpecMarkup: the HTML fallback on one Carrefour card         *)
(*                                                                          *)
(* The card's markup is a concatenation of MarkupPieceCount pieces: digit   *)
(* runs of 5, 8, 12 and 13 digits, separators and letters; neighbouring     *)
(* pieces merge into longer runs. The card may hold a link and a panel.     *)

MarkupPieceCount == 3

ShortRunA == <<"1", "2", "3", "4", "5", "6", "7", "0">>

ShortRunB == <<"8", "7", "6", "5", "4", "3", "2", "1">>

MarkupPieces ==
    {EMPTY, <<" ">>, <<"x">>, <<"-">>, ShortRunA, ShortRunB, BarcodeA, BarcodeB,
     DigitRun(12), DigitRun(5)}

RECURSIVE Markups(_)
Markups(n) ==
    IF n = 0 THEN {EMPTY}
    ELSE {piece \o rest : piece \in MarkupPieces, rest \in Markups(n - 1)}

MarkupLinks ==
    {Null, Some(<<"/", "p", "/", "l", "a", "i", "t", "-">> \o ShortRunB)}

InitMarkup ==
    \E html \in Markups(MarkupPieceCount), link \in MarkupLinks, decorated \in BOOLEAN :
        /\ panierclairEnabled = FALSE
        /\ panierclairCompact = FALSE
        /\ currentFilters = DefaultFilters
        /\ currentStore = "Carrefour"
        /\ initialized = FALSE
        /\ observing = FALSE
        /\ debounceTimer = FALSE
        /\ cards = <<[UndecoratedCard("article", EMPTY,
                                      IF link = Null THEN "none"
                                      ELSE "product-card-click-wrapper",
                                      link, html, FALSE)
                        EXCEPT !.panels =
                            IF decorated
                            THEN <<createProductInfo(ScoreRecord(<<"a">>, <<"b">>, <<"1">>),
                                                     FALSE)>>
                            ELSE << >>]>>
        /\ bodyCompact = FALSE
        /\ styleInjected = FALSE
        /\ pending = << >>
        /\ filterTimers = 0
        /\ scanCount = 0
        /\ extracted = Null
        /\ results = Null
        /\ DebounceIdle
        /\ dom = Null

\* extractBarcodeFromArticleHTML is called on the card.
CallArticleHTML ==
    /\ extracted = Null
    /\ extracted' = Some([markup   |-> InnerHTML(cards[1]),
                          fallback |-> extractBarcodeFromArticleHTML(cards[1])])
    /\ UNCHANGED <<panierclairEnabled, panierclairCompact, currentFilters, currentStore,
                   initialized, observing, debounceTimer, cards, bodyCompact,
                   styleInjected, pending, filterTimers, scanCount, results,
                   debounceVars, dom>>

NextMarkup == CallArticleHTML

SpecMarkup == InitMarkup /\ [][NextMarkup]_vars

-----------------------------------------------------------------------------
(* Claims on the HTML fallback, checked under SpecMarkup                    *)

\* The maximal runs of word characters of s, as <<first, last>>.
WordRuns(s) ==
    LET Starts == {i \in 1..Len(s) : IsWordChar(s[i]) /\ (i = 1 \/ ~IsWordChar(s[i - 1]))}
        Ends   == {j \in 1..Len(s) : IsWordChar(s[j]) /\ (j = Len(s) \/ ~IsWordChar(s[j + 1]))}
    IN  {<<i, CHOOSE j \in Ends : j >= i /\ \A e \in Ends : e >= i => j <= e>> : i \in Starts}

\* The standalone tokens of n digits of s.
DigitTokens(s, n) ==
    {r \in WordRuns(s) : r[2] - r[1] + 1 = n /\ AllDigits(SubSeq(s, r[1], r[2]))}

FirstToken(s, T) ==
    LET r == CHOOSE r \in T : \A q \in T : r[1] <= q[1]
    IN  SubSeq(s, r[1], r[2])

\* C12: the HTML fallback returns the first standalone 13-digit token of the
\* markup when there is one, even behind a standalone 8-digit token; otherwise
\* the first standalone 8-digit token; otherwise null. It returns no digit run
\* of another length.
C12_HtmlFallbackPrefersEan13 ==
    extracted # Null =>
        LET s == extracted[1].markup
        IN  extracted[1].fallback =
                IF DigitTokens(s, 13) # {} THEN Some(FirstToken(s, DigitTokens(s, 13)))
                ELSE IF DigitTokens(s, 8) # {} THEN Some(FirstToken(s, DigitTokens(s, 8)))
                ELSE Null

C12_Witness ==
    /\ extracted # Null
    /\ extracted[1].fallback = Some(BarcodeB)
    /\ DigitTokens(extracted[1].markup, 8) # {}
    /\ \E r \in DigitTokens(extracted[1].markup, 8) :
          \A q \in DigitTokens(extracted[1].markup, 13) : r[1] < q[1]

-----------------------------------------------------------------------------
(* Specification SpecEnumerate: the enumeration on a page of PageLength     *)
(* cards, each with or without a link, an identifier and a barcode          *)

PageLength == 3

RayonPath == <<"/", "r", "a", "y", "o", "n", "/">>

LaitSlug == <<"/", "p", "/", "l", "a", "i", "t", "-">>

EnumerationTemplates ==
    {IntermarcheCard(BarcodeA),
     UndecoratedCard("layout", EMPTY, "plain", Some(ProduitPath \o BarcodeB), EMPTY, TRUE),
     UndecoratedCard("layout", EMPTY, "none", Null, EMPTY, TRUE),
     UndecoratedCard("layout", EMPTY, "productCard__link",
                     Some(ProduitPath \o <<"l", "a", "i", "t">>), EMPTY, TRUE),
     UndecoratedCard("layout", EMPTY, "plain", Some(RayonPath \o BarcodeA), EMPTY, FALSE),
     UndecoratedCard("article", BarcodeA, "none", Null, EMPTY, FALSE),
     UndecoratedCard("article", EMPTY, "product-card-click-wrapper",
                     Some(LaitSlug \o BarcodeB), EMPTY, FALSE),
     UndecoratedCard("article", <<"l", "a", "i", "t">>, "product-card-click-wrapper",
                     Some(LaitSlug), <<"r", "e", "f", " ">> \o ShortRunA, FALSE),
     UndecoratedCard("article", EMPTY, "none", Null, <<"l", "a", "i", "t">>, FALSE)}

InitEnumerate ==
    \E page \in [1..PageLength -> EnumerationTemplates],
       store \in {"Intermarche", "Carrefour"} :
        /\ panierclairEnabled = FALSE
        /\ panierclairCompact = FALSE
        /\ currentFilters = DefaultFilters
        /\ currentStore = store
        /\ initialized = FALSE
        /\ observing = FALSE
        /\ debounceTimer = FALSE
        /\ cards = page
        /\ bodyCompact = FALSE
        /\ styleInjected = FALSE
        /\ pending = << >>
        /\ filterTimers = 0
        /\ scanCount = 0
        /\ extracted = Null
        /\ results = Null
        /\ DebounceIdle
        /\ dom = Null

NextEnumerate == CallEnumerate

SpecEnumerate == InitEnumerate /\ [][NextEnumerate]_vars

-----------------------------------------------------------------------------
(* Claims on the enumeration, checked under SpecEnumerate                   *)

\* The cards of the page for which the store's extraction chain yields a
\* barcode.
Extractable(store, cs) ==
    {i \in 1..Len(cs) : CardSelected(store, cs[i]) /\ CardBarcode(store, cs[i]) # Null}

\* C13: getProductElementsAndBarcodes returns exactly the cards for which an
\* extraction method yields a barcode, each once with that barcode, in DOM
\* order; the cards without an extractable barcode are left out.
C13_EnumerationKeepsExtractableInOrder ==
    results # Null =>
        LET r == results[1]
        IN  /\ {r[k].productElement : k \in 1..Len(r)} = Extractable(currentStore, cards)
            /\ \A k \in 1..Len(r), l \in 1..Len(r) :
                  k < l => r[k].productElement < r[l].productElement
            /\ \A k \in 1..Len(r) :
                  Some(r[k].barcode) = CardBarcode(currentStore, cards[r[k].productElement])

C13_Witness ==
    /\ results # Null
    /\ Len(cards) >= 3
    /\ Extractable(currentStore, cards) = {1, 3}
    /\ Len(results[1]) = 2
    /\ results[1][1].productElement = 1
    /\ results[1][2].productElement = 3
    /\ results[1][1].barcode # results[1][2].barcode

-----------------------------------------------------------------------------
(* Claims on the processing pipeline, checked under Spec                    *)

\* The cards the k-th lookup in flight asked about.
LookupCards(lookup) ==
    {lookup.products[k].productElement : k \in 1..Len(lookup.products)}

\* C6: whatever the sequence of processProductGrid runs and lookup responses,
\* overlapping lookups included, every card holds at most one loader and at
\* most one info panel, and no step inserts a loader or a panel into a card
\* that is already processed.
C6_AtMostOneLoaderAndPanel ==
    /\ [](\A i \in 1..Len(cards) :
             cards[i].loaders <= 1 /\ Len(cards[i].panels) <= 1)
    /\ [][\A i \in 1..Len(cards) :
             cards[i].processed =>
                 /\ Len(cards'[i].panels) = Len(cards[i].panels)
                 /\ cards'[i].loaders <= cards[i].loaders]_vars

C6_Witness ==
    /\ scanCount >= 2
    /\ \E i \in 1..Len(cards) :
          /\ cards[i].processed
          /\ Len(cards[i].panels) = 1
          /\ cards[i].loaders = 0
          /\ \E k \in 1..Len(pending) : i \in LookupCards(pending[k])

\* C7 (as stated): a run of the pipeline never puts the barcode of an
\* already processed card into its getProductsInfo request.
C7_ProcessedCardsNotRequested ==
    [][(scanCount' = scanCount + 1 /\ Len(pending') = Len(pending) + 1) =>
          \A i \in LookupCards(pending'[Len(pending')]) : ~cards[i].processed]_vars

\* The adapter the page calls for: Intermarche when a product-layout element
\* is in the document, else Carrefour when a product-list article is, else none.
FirstApplicable(cs) ==
    IF \E i \in 1..Len(cs) : cs[i].attached /\ cs[i].tag = "layout" THEN "Intermarche"
    ELSE IF \E i \in 1..Len(cs) : cs[i].attached /\ cs[i].tag = "article" THEN "Carrefour"
    ELSE "none"

\* C14: the active adapter is chosen once, when the script initialises, as the
\* first of Intermarche, Carrefour that is active on the page at that moment;
\* before that there is none, and afterwards currentStore never changes.
C14_StoreChosenOnceInPriorityOrder ==
    [][/\ initialized => currentStore' = currentStore
       /\ (~initialized /\ initialized') => currentStore' = FirstApplicable(cards)
       /\ ~initialized' => currentStore' = "none"]_vars

C14_Witness ==
    /\ initialized
    /\ currentStore = "Intermarche"
    /\ cards[1].tag = "article"
    /\ cards[1].attached
    /\ cards[2].tag = "layout"
    /\ scanCount >= 2
    /\ ~panierclairEnabled

\* C15: when no adapter was applicable at initialisation, no lookup is ever in
\* flight, no card holds a loader or an info panel and no card is
\* de-emphasized, whatever mutations and messages follow.
C15_NoStoreNoAction ==
    (initialized /\ currentStore = "none") =>
        /\ pending = << >>
        /\ \A i \in 1..Len(cards) :
              /\ cards[i].loaders = 0
              /\ cards[i].panels = << >>
              /\ ~cards[i].loaderAdded
              /\ ~cards[i].filteredOut

C15_Witness ==
    /\ initialized
    /\ currentStore = "none"
    /\ panierclairEnabled
    /\ \A i \in 1..Len(cards) : cards[i].attached
    /\ \E i \in 1..Len(cards) : CardBarcode("Intermarche", cards[i]) # Null
    /\ styleInjected
    /\ currentFilters.nutriscore # ANY
    /\ ~debounceTimer

\* C16: when the response to a lookup carries a products array, every card of
\* the batch whose barcode is absent from it ends without a loader, gains no
\* info panel, no scores and no processed marker, and the next enumeration
\* still returns it.
C16_MissRemovesLoaderOnly ==
    [][\A k \in {j \in 1..Len(pending) : pending' = RemoveAt(pending, j)} :
          \A hits \in SUBSET RequestedBarcodes(pending[k]), t \in ScoreTriples :
              LookupResponse(k, Some(ProductInfos(pending[k], hits, t))) =>
                  \A n \in 1..Len(pending[k].products) :
                      LET e == pending[k].products[n]
                          i == e.productElement
                          again == getProductElementsAndBarcodes(pending[k].store, cards')
                      IN  e.barcode \notin hits =>
                              /\ cards'[i].loaders = 0
                              /\ cards'[i].panels = cards[i].panels
                              /\ cards'[i].scores = cards[i].scores
                              /\ cards'[i].processed = cards[i].processed
                              /\ \E m \in 1..Len(again) : again[m].productElement = i]_vars

C16_Witness ==
    /\ pending = << >>
    /\ scanCount = 1
    /\ \E i \in 1..Len(cards) :
          /\ cards[i].loaderAdded
          /\ cards[i].loaders = 0
          /\ ~cards[i].processed
          /\ cards[i].panels = << >>

\* C17 (as stated): in every scan that sends a request, each discovered card
\* that is not processed and holds no loader holds one once the request is
\* sent, for every adapter.
C17_LoadersAttachedBeforeRequest ==
    [][(scanCount' = scanCount + 1 /\ Len(pending') = Len(pending) + 1) =>
          \A i \in LookupCards(pending'[Len(pending')]) :
              (~cards[i].processed /\ cards[i].loaders = 0) => cards'[i].loaders = 1]_vars

\* C18: while the extension is disabled, and so from the handling of a toggle
\* message with enabled=false until it is enabled again, no card carries the
\* class panierclair-filtered-out, whatever messages, scans and applyFilters
\* timers run in the meantime.
C18_DisabledClearsDeEmphasis ==
    ~panierclairEnabled => \A i \in 1..Len(cards) : ~cards[i].filteredOut

C18_Witness ==
    /\ initialized
    /\ ~panierclairEnabled
    /\ styleInjected
    /\ currentFilters.nutriscore = <<"b">>
    /\ filterTimers = 0
    /\ \E i \in Decorated :
          /\ cards[i].scores[1].nutri = <<"c">>
          /\ ~cards[i].filteredOut

\* C19 (as stated): while the extension is disabled every info panel in the
\* page is hidden (display none), also a panel inserted by a lookup response
\* that arrives after the extension was disabled; and no step removes a panel.
C19_DisabledHidesEveryPanel ==
    /\ [](~panierclairEnabled =>
             \A i \in 1..Len(cards) : \A k \in 1..Len(cards[i].panels) :
                 cards[i].panels[k].display = "none")
    /\ [][\A i \in 1..Len(cards) : Len(cards'[i].panels) >= Len(cards[i].panels)]_vars

\* A payload with its defaults: 'any' for a missing or empty axis value, false
\* for a missing flag.
AxisOrAny(x) == IF x = Null \/ x = Some(EMPTY) THEN ANY ELSE x[1]

FlagOrFalse(x) == IF x = Null THEN FALSE ELSE x[1]

Defaulted(g) ==
    [nutriscore        |-> AxisOrAny(g.nutriscore),
     ecoscore          |-> AxisOrAny(g.ecoscore),
     nova              |-> AxisOrAny(g.nova),
     nutriscoreOnly    |-> FlagOrFalse(g.nutriscoreOnly),
     ecoscoreOnly      |-> FlagOrFalse(g.ecoscoreOnly),
     novaOnly          |-> FlagOrFalse(g.novaOnly),
     greyFilterUnknown |-> FlagOrFalse(g.greyFilterUnknown)]

\* C20: the seven fields of currentFilters are always defined, the axis values
\* non-empty; the storage load and a filters message with a payload set
\* currentFilters to the payload with its defaults, and a filters message
\* without a payload leaves it unchanged.
C20_CurrentFiltersAlwaysComplete ==
    /\ [](/\ currentFilters.nutriscore # EMPTY
          /\ currentFilters.ecoscore # EMPTY
          /\ currentFilters.nova # EMPTY
          /\ currentFilters.nutriscoreOnly \in BOOLEAN
          /\ currentFilters.ecoscoreOnly \in BOOLEAN
          /\ currentFilters.novaOnly \in BOOLEAN
          /\ currentFilters.greyFilterUnknown \in BOOLEAN)
    /\ [][/\ \A g \in FilterConfigurations :
                FiltersMessage(Some(g)) => currentFilters' = Defaulted(g)
          /\ FiltersMessage(Null) => currentFilters' = currentFilters
          /\ (~initialized /\ initialized') =>
                \A e \in StoredSwitches, c \in StoredSwitches,
                   g \in {NoFilters} \cup FilterConfigurations :
                    StorageLoaded(e, c, g) => currentFilters' = Defaulted(g)]_vars

C20_Witness ==
    /\ initialized
    /\ currentFilters.nutriscore = ANY
    /\ currentFilters.ecoscore = <<"b">>
    /\ currentFilters.nova = ANY
    /\ ~currentFilters.nutriscoreOnly
    /\ currentFilters.ecoscoreOnly
    /\ ~currentFilters.novaOnly
    /\ currentFilters.greyFilterUnknown

\* C21: a card only moves forward: the loaderAdded marker is never cleared,
\* and once a card is marked processed the marker stays, its info panels stay
\* the same elements (only their display may change) and no loader is
\* attached to it again.
C21_CardsOnlyMoveForward ==
    [][\A i \in 1..Len(cards) :
          /\ cards[i].loaderAdded => cards'[i].loaderAdded
          /\ cards[i].processed =>
                /\ cards'[i].processed
                /\ cards'[i].scores = cards[i].scores
                /\ Len(cards'[i].panels) = Len(cards[i].panels)
                /\ \A k \in 1..Len(cards[i].panels) :
                      /\ cards'[i].panels[k].barcode = cards[i].panels[k].barcode
                      /\ cards'[i].panels[k].variant = cards[i].panels[k].variant
                /\ cards'[i].loaders <= cards[i].loaders]_vars

\* A processed card was enumerated again by the third scan: of the three
\* lookups sent, the one answered was answered before the third was sent.
C21_Witness ==
    /\ scanCount = MaxScans
    /\ Len(pending) = MaxPending
    /\ \E i \in 1..Len(cards) :
          /\ cards[i].processed
          /\ Len(cards[i].panels) = 1
          /\ i \in LookupCards(pending[Len(pending)])

\* C22: at most one card of the page is decorated with the info of a given
\* barcode.
C22_OneDecoratedCardPerBarcode ==
    \A i \in 1..Len(cards), j \in 1..Len(cards) :
        i # j =>
            \A k \in 1..Len(cards[i].panels), m \in 1..Len(cards[j].panels) :
                cards[i].panels[k].barcode # cards[j].panels[m].barcode

-----------------------------------------------------------------------------
(* Specification SpecThrow: the enumeration when handling a card throws     *)
(*                                                                          *)
(* throwing is the set of cards on which a call of the forEach body raises  *)
(* an exception. IntermarcheStore wraps the whole forEach in one try/catch  *)
(* and returns the results pushed so far; CarrefourStore has no try/catch   *)
(* and the exception leaves getProductElementsAndBarcodes.                  *)

\* The first card the forEach visits whose handling throws, 0 when none does.
FirstThrow(store, cs, throwing) ==
    LET visited == {i \in 1..Len(cs) : CardSelected(store, cs[i]) /\ i \in throwing}
    IN  IF visited = {} THEN 0
        ELSE CHOOSE i \in visited : \A j \in visited : i <= j

\* getProductElementsAndBarcodes when the cards of throwing raise: thrown
\* tells whether the exception reached the caller, returned is the array
\* returned otherwise.
EnumerateThrowing(store, cs, throwing) ==
    LET k == FirstThrow(store, cs, throwing)
    IN  IF k = 0
        THEN [thrown |-> FALSE, returned |-> getProductElementsAndBarcodes(store, cs)]
        ELSE IF store = "Intermarche"
        THEN [thrown   |-> FALSE,
              returned |-> getProductElementsAndBarcodes(store, SubSeq(cs, 1, k - 1))]
        ELSE [thrown |-> TRUE, returned |-> << >>]

CallEnumerateThrowing(throwing) ==
    /\ results = Null
    /\ results' = Some([throwing |-> throwing,
                        outcome  |-> EnumerateThrowing(currentStore, cards, throwing)])
    /\ UNCHANGED <<panierclairEnabled, panierclairCompact, currentFilters, currentStore,
                   initialized, observing, debounceTimer, cards, bodyCompact,
                   styleInjected, pending, filterTimers, scanCount, extracted,
                   debounceVars, dom>>

NextThrow == \E throwing \in SUBSET (1..PageLength) : CallEnumerateThrowing(throwing)

SpecThrow == InitEnumerate /\ [][NextThrow]_vars

\* C23: an exception raised while handling a card neither reaches the caller
\* nor costs any other card its entry: the array returned holds exactly the
\* extractable cards whose handling did not throw.
C23_EachCardInItsOwnFailureBoundary ==
    results # Null =>
        LET r == results[1].outcome
        IN  /\ ~r.thrown
            /\ {r.returned[k].productElement : k \in 1..Len(r.returned)}
                  = Extractable(currentStore, cards) \ results[1].throwing

-----------------------------------------------------------------------------
(* Claims on the observer and the timers, checked under Spec                *)

\* C24: a step in which the extension inserts or removes a loader or inserts
\* an info panel never arms the debounce timer of the mutation listener.
C24_OwnMutationsNotObserved ==
    [][(\E i \in 1..Len(cards) :
            \/ cards'[i].loaders # cards[i].loaders
            \/ Len(cards'[i].panels) # Len(cards[i].panels))
        => (debounceTimer' => debounceTimer)]_vars

-----------------------------------------------------------------------------
(* Specification SpecDebounce: the debounced observer callback in time      *)
(*                                                                          *)
(* The initial states are the states after the storage callback, on a page  *)
(* of one card. Time passes in steps drawn from Elapses and never passes    *)
(* the due time of a pending timeout: a timeout that is due runs before the *)
(* clock moves on.                                                          *)

DebounceDelay == 200

MaxTime == 700

MaxNotifications == 3

Elapses == {50, 150, 200}

\* Mutant of debounce: the pending timeout is not cleared.
debounce_noClear(tm, tos, id, t) ==
    [timer    |-> Some(id),
     timeouts |-> tos \cup {[id |-> id, due |-> t + DebounceDelay]}]

\* One call, at time t, of the function debounce(func, delay) returns:
\* if (timer) clearTimeout(timer); timer = setTimeout(..., delay), where id is
\* the id setTimeout returns.
debounce(tm, tos, id, t) ==
    LET cleared == IF tm # Null THEN {x \in tos : x.id # tm[1]} ELSE tos
    IN  [timer    |-> Some(id),
         timeouts |-> cleared \cup {[id |-> id, due |-> t + DebounceDelay]}]

DebouncePages == {<<c>> : c \in CardTemplates}

InitDebounce ==
    \E page \in DebouncePages, enabled \in BOOLEAN :
        /\ panierclairEnabled = enabled
        /\ panierclairCompact = FALSE
        /\ currentFilters = DefaultFilters
        /\ currentStore = initializeStore(page)
        /\ initialized = TRUE
        /\ observing = TRUE
        /\ debounceTimer = FALSE
        /\ cards = page
        /\ bodyCompact = FALSE
        /\ styleInjected = FALSE
        /\ pending = << >>
        /\ filterTimers = 0
        /\ scanCount = 0
        /\ extracted = Null
        /\ results = Null
        /\ DebounceIdle
        /\ dom = Null

\* The observer delivers a childList mutation: the debounced function is called.
ObserverNotifies ==
    /\ observing
    /\ Len(notifiedAt) < MaxNotifications
    /\ LET called == debounce(timer, timeouts, Len(notifiedAt) + 1, now)
       IN  /\ timer' = called.timer
           /\ timeouts' = called.timeouts
    /\ notifiedAt' = Append(notifiedAt, now)
    /\ debounceTimer' = TRUE
    /\ UNCHANGED <<panierclairEnabled, panierclairCompact, currentFilters, currentStore,
                   initialized, observing, cards, bodyCompact, styleInjected, pending,
                   filterTimers, scanCount, extracted, results, now, ranAt, dom>>

\* A timeout set by debounce is due: the observer callback runs.
TimeoutFires ==
    \E t \in timeouts :
        /\ t.due <= now
        /\ timeouts' = timeouts \ {t}
        /\ debounceTimer' = (timeouts' # {})
        /\ ranAt' = Append(ranAt, [at |-> now, after |-> Len(notifiedAt)])
        /\ LET grid == processProductGrid(currentStore, panierclairEnabled, cards,
                                          pending, panierclairCompact)
           IN  /\ cards' = grid.cards
               /\ pending' = grid.pending
               /\ scanCount' = IF grid.ran THEN scanCount + 1 ELSE scanCount
               /\ filterTimers' = IF grid.ran THEN filterTimers + 1 ELSE filterTimers
        /\ observing' = TRUE
        /\ UNCHANGED <<panierclairEnabled, panierclairCompact, currentFilters,
                       currentStore, initialized, bodyCompact, styleInjected, extracted,
                       results, now, timer, notifiedAt, dom>>

TimePasses(d) ==
    /\ now + d <= MaxTime
    /\ \A t \in timeouts : now + d <= t.due
    /\ now' = now + d
    /\ UNCHANGED <<panierclairEnabled, panierclairCompact, currentFilters, currentStore,
                   initialized, observing, debounceTimer, cards, bodyCompact,
                   styleInjected, pending, filterTimers, scanCount, extracted, results,
                   timer, timeouts, notifiedAt, ranAt, dom>>

NextDebounce ==
    \/ ObserverNotifies
    \/ TimeoutFires
    \/ \E d \in Elapses : TimePasses(d)

SpecDebounce == InitDebounce /\ [][NextDebounce]_vars

\* The callback ran for the k-th notification.
RanAfter(k) == {j \in 1..Len(ranAt) : ranAt[j].after = k}

\* The k-th notification ends a burst: the next one, if any, comes a full
\* delay later or more, and the delay has passed.
EndsBurst(k) ==
    IF k < Len(notifiedAt)
    THEN notifiedAt[k + 1] - notifiedAt[k] > DebounceDelay
    ELSE now - notifiedAt[k] > DebounceDelay

\* C25: at most one debounce timeout is pending; the callback runs only 200 ms
\* after the notification it follows, at most once for it, and not at all for
\* a notification followed by another within less than 200 ms; it has run
\* once the last notification of a burst is more than 200 ms old. Each run of
\* the callback is one scan when the extension is enabled on a supported page.
C25_DebounceCoalescesBurst ==
    /\ Cardinality(timeouts) <= 1
    /\ \A j \in 1..Len(ranAt) :
          /\ ranAt[j].after \in 1..Len(notifiedAt)
          /\ ranAt[j].at = notifiedAt[ranAt[j].after] + DebounceDelay
    /\ \A k \in 1..Len(notifiedAt) :
          /\ Cardinality(RanAfter(k)) <= 1
          /\ (k < Len(notifiedAt) /\ notifiedAt[k + 1] - notifiedAt[k] < DebounceDelay)
                => RanAfter(k) = {}
          /\ EndsBurst(k) => Cardinality(RanAfter(k)) = 1
    /\ (panierclairEnabled /\ currentStore # "none") => scanCount = Len(ranAt)

\* Three notifications less than 200 ms apart were followed by one scan.
C25_Witness ==
    /\ Len(notifiedAt) = 3
    /\ notifiedAt[2] - notifiedAt[1] \in 1..(DebounceDelay - 1)
    /\ notifiedAt[3] - notifiedAt[2] \in 1..(DebounceDelay - 1)
    /\ Len(ranAt) = 1
    /\ ranAt[1].after = 3
    /\ scanCount = 1
    /\ now > notifiedAt[3] + DebounceDelay

-----------------------------------------------------------------------------
(* Claims on the re-filter pass, checked under Spec                         *)

\* The grey-out rule on a card's stored scores under currentFilters: a card
\* that does not match is greyed unless an active axis carries an unknown
\* score and greyFilterUnknown is off.
GreyOutRule(card) ==
    /\ ~ProductMatches(card)
    /\ \/ ~(\E a \in Axes : AxisActive(a) /\ AxisUnknown(card, a))
       \/ currentFilters.greyFilterUnknown

ClassesFollowRule ==
    \A i \in Decorated : cards[i].filteredOut = GreyOutRule(cards[i])

\* C26: right after a filters message with a configuration is handled while
\* the extension is enabled, every decorated card carries the de-emphasis
\* class exactly when the grey-out rule holds for its stored scores under
\* the new configuration.
C26_FiltersMessageRefiltersAtOnce ==
    [][\A g \in FilterConfigurations :
          (panierclairEnabled /\ FiltersMessage(Some(g))) => ClassesFollowRule']_vars

\* Only the filters message can have set the class: the storage callback's
\* scan is the only one so far and none of its timers has run.
C26_Witness ==
    /\ panierclairEnabled
    /\ scanCount = 1
    /\ filterTimers = 2
    /\ currentFilters.nutriscore = <<"b">>
    /\ \E i \in Decorated : cards[i].filteredOut

-----------------------------------------------------------------------------
(* Specification SpecPlace: where IntermarcheStore puts loader and panel    *)
(*                                                                          *)
(* dom is the element tree of one card: kind[n] is what element n is        *)
(* ("root" the product-layout element, "price" a                            *)
(* .stime-product--footer__prices block, "loader", "info", "container" the  *)
(* div insertProductInfo creates, "other"), children[n] its child elements  *)
(* in order. Element 1 is the card root; a created element is in neither    *)
(* children list until it is inserted.                                      *)

MaxInsertedLoaders == 2

MaxInsertedPanels == 2

Tree(kinds, kids) == [kind |-> kinds, children |-> kids]

CardTrees ==
    {Tree(<<"root">>, << << >> >>),
     Tree(<<"root", "other">>, << <<2>>, << >> >>),
     Tree(<<"root", "price">>, << <<2>>, << >> >>),
     Tree(<<"root", "other", "price">>, << <<2, 3>>, << >>, << >> >>),
     Tree(<<"root", "other", "price", "other">>, << <<2, 3, 4>>, << >>, << >>, << >> >>),
     Tree(<<"root", "other", "other", "other", "price", "other">>,
          << <<2, 3>>, << >>, <<4, 5, 6>>, << >>, << >>, << >> >>),
     Tree(<<"root", "other", "other", "price">>, << <<2>>, <<3>>, <<4>>, << >> >>),
     Tree(<<"root", "other", "price", "price">>, << <<2, 4>>, <<3>>, << >>, << >> >>)}

Elements(d) == 1..Len(d.kind)

\* n.parentNode, 0 for null
parentNode(d, n) ==
    IF \E p \in Elements(d) : \E k \in 1..Len(d.children[p]) : d.children[p][k] = n
    THEN CHOOSE p \in Elements(d) : \E k \in 1..Len(d.children[p]) : d.children[p][k] = n
    ELSE 0

\* The elements below the given ones, in document order.
RECURSIVE DocumentOrder(_, _)
DocumentOrder(d, ns) ==
    IF ns = << >> THEN << >>
    ELSE <<Head(ns)>> \o DocumentOrder(d, d.children[Head(ns)]) \o DocumentOrder(d, Tail(ns))

\* n.querySelector(<selector of kind>), 0 for null
querySelector(d, n, kind) ==
    LET below == DocumentOrder(d, d.children[n])
        Is(x) == d.kind[x] = kind
        found == SelectSeq(below, Is)
    IN  IF found = << >> THEN 0 ELSE Head(found)

\* document.createElement: the new element is Len(d.kind) + 1.
createElement(d, kind) ==
    [kind |-> Append(d.kind, kind), children |-> Append(d.children, << >>)]

\* n.remove(), and the removal that precedes any insertion of n
remove(d, n) ==
    LET Other(x) == x # n
    IN  [d EXCEPT !.children = [p \in Elements(d) |-> SelectSeq(d.children[p], Other)]]

appendChild(d, p, n) ==
    LET detached == remove(d, n)
    IN  [detached EXCEPT !.children[p] = Append(@, n)]

insertBefore(d, p, n, ref) ==
    LET detached == remove(d, n)
        kids     == detached.children[p]
        k        == CHOOSE i \in 1..Len(kids) : kids[i] = ref
    IN  [detached EXCEPT !.children[p] =
            SubSeq(kids, 1, k - 1) \o <<n>> \o SubSeq(kids, k, Len(kids))]

\* Mutant of IntermarcheInsertLoader: the loader is always appended to the root.
IntermarcheInsertLoader_alwaysAppend(d, loader) == appendChild(d, 1, loader)

\* IntermarcheStore.insertLoader(productElement, loader), productElement = 1
IntermarcheInsertLoader(d, loader) ==
    LET priceElement == querySelector(d, 1, "price")
    IN  IF priceElement # 0 /\ parentNode(d, priceElement) # 0
        THEN insertBefore(d, parentNode(d, priceElement), loader, priceElement)
        ELSE appendChild(d, 1, loader)

\* Mutant of IntermarcheInsertProductInfo: the container is never inserted.
IntermarcheInsertProductInfo_detached(d, infoElement) ==
    LET intermPrice == querySelector(d, 1, "price")
    IN  IF intermPrice # 0
        THEN LET withContainer == createElement(d, "container")
                 container     == Len(withContainer.kind)
             IN  appendChild(withContainer, container, infoElement)
        ELSE appendChild(d, 1, infoElement)

\* IntermarcheStore.insertProductInfo(productElement, infoElement)
IntermarcheInsertProductInfo(d, infoElement) ==
    LET intermPrice == querySelector(d, 1, "price")
    IN  IF intermPrice # 0
        THEN LET withContainer == createElement(d, "container")
                 container     == Len(withContainer.kind)
                 filled        == appendChild(withContainer, container, infoElement)
                 parent        == parentNode(filled, intermPrice)
             IN  IF parent # 0
                 THEN appendChild(insertBefore(filled, parent, container, intermPrice),
                                  container, intermPrice)
                 ELSE filled
        ELSE appendChild(d, 1, infoElement)

CountKind(d, kind) == Cardinality({n \in Elements(d) : d.kind[n] = kind})

InitPlace ==
    \E tree \in CardTrees :
        /\ panierclairEnabled = TRUE
        /\ panierclairCompact = FALSE
        /\ currentFilters = DefaultFilters
        /\ currentStore = "Intermarche"
        /\ initialized = TRUE
        /\ observing = TRUE
        /\ debounceTimer = FALSE
        /\ cards = <<IntermarcheCard(BarcodeA)>>
        /\ bodyCompact = FALSE
        /\ styleInjected = FALSE
        /\ pending = << >>
        /\ filterTimers = 0
        /\ scanCount = 0
        /\ extracted = Null
        /\ results = Null
        /\ DebounceIdle
        /\ dom = Some(tree)

PlaceUnchanged ==
    UNCHANGED <<panierclairEnabled, panierclairCompact, currentFilters, currentStore,
                initialized, observing, debounceTimer, cards, bodyCompact, styleInjected,
                pending, filterTimers, scanCount, extracted, results, debounceVars>>

\* const loader = createLoader(); this.insertLoader(productElement, loader)
CallInsertLoader ==
    /\ dom # Null
    /\ CountKind(dom[1], "loader") < MaxInsertedLoaders
    /\ LET created == createElement(dom[1], "loader")
       IN  dom' = Some(IntermarcheInsertLoader(created, Len(created.kind)))
    /\ PlaceUnchanged

\* const loader = productElement.querySelector('.loader'); if (loader) loader.remove()
CallRemoveLoader ==
    /\ dom # Null
    /\ querySelector(dom[1], 1, "loader") # 0
    /\ dom' = Some(remove(dom[1], querySelector(dom[1], 1, "loader")))
    /\ PlaceUnchanged

\* this.insertProductInfo(element, infoElement) on a created info element
CallInsertProductInfo ==
    /\ dom # Null
    /\ CountKind(dom[1], "info") < MaxInsertedPanels
    /\ LET created == createElement(dom[1], "info")
       IN  dom' = Some(IntermarcheInsertProductInfo(created, Len(created.kind)))
    /\ PlaceUnchanged

NextPlace == CallInsertLoader \/ CallRemoveLoader \/ CallInsertProductInfo

SpecPlace == InitPlace /\ [][NextPlace]_vars

-----------------------------------------------------------------------------
(* Claims on the placement, checked under SpecPlace                         *)

\* The element a step created, 0 when the step created none of that kind.
Created(kind) ==
    IF /\ Len(dom'[1].kind) > Len(dom[1].kind)
       /\ \E n \in (Len(dom[1].kind) + 1)..Len(dom'[1].kind) : dom'[1].kind[n] = kind
    THEN CHOOSE n \in (Len(dom[1].kind) + 1)..Len(dom'[1].kind) : dom'[1].kind[n] = kind
    ELSE 0

\* The price blocks of the card.
PriceBlocks(d) == {n \in Elements(d) : d.kind[n] = "price"}

RECURSIVE InsideCard(_, _)
InsideCard(d, n) ==
    /\ n # 1
    /\ parentNode(d, n) # 0
    /\ (parentNode(d, n) = 1 \/ InsideCard(d, parentNode(d, n)))

\* The position of n among the children of its parent.
ChildIndex(d, n) ==
    LET kids == d.children[parentNode(d, n)]
    IN  CHOOSE i \in 1..Len(kids) : kids[i] = n

\* The child positions leading from the root to n.
RECURSIVE Path(_, _)
Path(d, n) == IF n = 1 THEN << >> ELSE Append(Path(d, parentNode(d, n)), ChildIndex(d, n))

RECURSIVE PathBefore(_, _)
PathBefore(a, b) ==
    IF a = << >> THEN b # << >>
    ELSE IF b = << >> THEN FALSE
    ELSE Head(a) < Head(b) \/ (Head(a) = Head(b) /\ PathBefore(Tail(a), Tail(b)))

\* The card's price block: the one that precedes every other in the document.
PriceBlock(d) ==
    CHOOSE n \in PriceBlocks(d) :
        \A m \in PriceBlocks(d) \ {n} : PathBefore(Path(d, n), Path(d, m))

\* C27: the loader insertLoader places is inside the card: it is the sibling
\* immediately before the price block when the card has one, otherwise the
\* last child of the card root.
C27_LoaderBeforePriceOrAppended ==
    [][Created("loader") # 0 =>
          LET loader == Created("loader")
              before == dom[1]
              after  == dom'[1]
          IN  /\ InsideCard(after, loader)
              /\ IF PriceBlocks(before) # {}
                 THEN LET price == PriceBlock(before)
                      IN  /\ parentNode(after, loader) = parentNode(after, price)
                          /\ ChildIndex(after, loader) + 1 = ChildIndex(after, price)
                 ELSE /\ parentNode(after, loader) = 1
                      /\ ChildIndex(after, loader) = Len(after.children[1])]_vars

\* A loader was placed before a price block that is not a child of the root.
C27_Witness ==
    /\ dom # Null
    /\ \E loader \in Elements(dom[1]) :
          /\ dom[1].kind[loader] = "loader"
          /\ parentNode(dom[1], loader) > 1
          /\ PriceBlocks(dom[1]) # {}
          /\ ChildIndex(dom[1], loader) + 1 = ChildIndex(dom[1], PriceBlock(dom[1]))

\* C28: insertProductInfo leaves the info element inside the card: when the
\* card has a price block, a new container takes the price block's former
\* position and holds the info element followed by the price block, which
\* stays in the card; otherwise the info element is appended to the card root.
C28_InfoInContainerWithPriceOrAppended ==
    [][Created("info") # 0 =>
          LET info   == Created("info")
              before == dom[1]
              after  == dom'[1]
          IN  /\ InsideCard(after, info)
              /\ IF PriceBlocks(before) # {}
                 THEN LET price     == PriceBlock(before)
                          container == Created("container")
                      IN  /\ container # 0
                          /\ parentNode(after, container) = parentNode(before, price)
                          /\ ChildIndex(after, container) = ChildIndex(before, price)
                          /\ after.children[container] = <<info, price>>
                          /\ InsideCard(after, price)
                 ELSE /\ parentNode(after, info) = 1
                      /\ ChildIndex(after, info) = Len(after.children[1])]_vars

\* A container holding the info element and the price block stands below an
\* element that is not the card root.
C28_Witness ==
    /\ dom # Null
    /\ \E container \in Elements(dom[1]) :
          /\ dom[1].kind[container] = "container"
          /\ parentNode(dom[1], container) > 1
          /\ Len(dom[1].children[container]) = 2
          /\ dom[1].kind[dom[1].children[container][1]] = "info"
          /\ dom[1].kind[dom[1].children[container][2]] = "price"

-----------------------------------------------------------------------------
(* Specification SpecChain: the Carrefour extraction chain                  *)
(*                                                                          *)
(* Pages of ChainPageLength Carrefour articles whose id, link and markup    *)
(* each may or may not carry a barcode, the three being different.          *)

ChainPageLength == 2

ChainIds == {EMPTY, BarcodeA, <<"l", "a", "i", "t">>, <<"1", "2", "3", "4", "5", "6", "7">>}

ChainLinks == {Null, Some(LaitSlug \o BarcodeB), Some(LaitSlug \o <<"b", "i", "o">>)}

ChainMarkups == {EMPTY, <<"r", "e", "f", " ">> \o ShortRunA}

ChainCards ==
    {UndecoratedCard("article", id,
                     IF link = Null THEN "none" ELSE "product-card-click-wrapper",
                     link, html, FALSE) :
        id \in ChainIds, link \in ChainLinks, html \in ChainMarkups}

InitChain ==
    \E page \in [1..ChainPageLength -> ChainCards] :
        /\ panierclairEnabled = FALSE
        /\ panierclairCompact = FALSE
        /\ currentFilters = DefaultFilters
        /\ currentStore = "Carrefour"
        /\ initialized = FALSE
        /\ observing = FALSE
        /\ debounceTimer = FALSE
        /\ cards = page
        /\ bodyCompact = FALSE
        /\ styleInjected = FALSE
        /\ pending = << >>
        /\ filterTimers = 0
        /\ scanCount = 0
        /\ extracted = Null
        /\ results = Null
        /\ DebounceIdle
        /\ dom = Null

NextChain == CallEnumerate

SpecChain == InitChain /\ [][NextChain]_vars

\* The barcode the ordered chain resolves for a card: the article id when it
\* is a string of 8 to 14 digits, else the suffix of the link URL, else the
\* first 13-digit or 8-digit token of the markup, else none.
ChainBarcode(card) ==
    IF IsBarcode(card.id) THEN Some(card.id)
    ELSE IF card.href # Null /\ SuffixedBarcode(card.href[1]) # Null
    THEN SuffixedBarcode(card.href[1])
    ELSE LET s == InnerHTML(card)
         IN  IF DigitTokens(s, 13) # {} THEN Some(FirstToken(s, DigitTokens(s, 13)))
             ELSE IF DigitTokens(s, 8) # {} THEN Some(FirstToken(s, DigitTokens(s, 8)))
             ELSE Null

\* C29: CarrefourStore.getProductElementsAndBarcodes gives each card the
\* barcode of the ordered chain article id, link URL, HTML scan, stopping at
\* the first success, and leaves out the cards for which the chain fails.
C29_CarrefourChainStopsAtFirstSuccess ==
    results # Null =>
        LET r == results[1]
        IN  /\ {r[k].productElement : k \in 1..Len(r)}
                  = {i \in 1..Len(cards) : ChainBarcode(cards[i]) # Null}
            /\ \A k \in 1..Len(r) :
                  Some(r[k].barcode) = ChainBarcode(cards[r[k].productElement])

\* The id won over a link with another barcode on the first card, the link
\* over the markup on the second.
C29_Witness ==
    /\ results # Null
    /\ Len(results[1]) = 2
    /\ cards[1].id = BarcodeA
    /\ cards[1].href = Some(LaitSlug \o BarcodeB)
    /\ results[1][1].barcode = BarcodeA
    /\ ~IsBarcode(cards[2].id)
    /\ cards[2].href = Some(LaitSlug \o BarcodeB)
    /\ cards[2].html # EMPTY
    /\ results[1][2].barcode = BarcodeB

-----------------------------------------------------------------------------
(* Specification SpecLate: a page of one card left to itself                *)
(*                                                                          *)
(* No message arrives and the page does not change: the storage callback,   *)
(* the lookup responses and the timers are all that runs. The scans are     *)
(* then bounded by the mutations the extension can make to one card, so the *)
(* observer callback is not capped. A pending timeout eventually runs.      *)

InitLate ==
    /\ panierclairEnabled = FALSE
    /\ panierclairCompact = FALSE
    /\ currentFilters = DefaultFilters
    /\ currentStore = "none"
    /\ initialized = FALSE
    /\ observing = FALSE
    /\ debounceTimer = FALSE
    /\ cards \in DebouncePages
    /\ bodyCompact = FALSE
    /\ styleInjected = FALSE
    /\ pending = << >>
    /\ filterTimers = 0
    /\ scanCount = 0
    /\ extracted = Null
    /\ results = Null
    /\ DebounceIdle
    /\ dom = Null

\* The callback of some lookup in flight runs: with no response, or with the
\* products of a resolver that knows the barcodes of hits.
LookupAnswered ==
    \E k \in 1..Len(pending) :
        \/ LookupResponse(k, Null)
        \/ \E hits \in SUBSET RequestedBarcodes(pending[k]), t \in ScoreTriples :
              LookupResponse(k, Some(ProductInfos(pending[k], hits, t)))

NextLate ==
    \/ \E e \in StoredSwitches, f \in {NoFilters} \cup FilterConfigurations :
          StorageLoaded(e, Null, f)
    \/ ObserverCallback
    \/ LookupAnswered
    \/ ApplyFiltersTimer

\* A pending timeout eventually runs, and the callback of sendMessage is
\* eventually called, with the response or without one.
SpecLate ==
    /\ InitLate
    /\ [][NextLate]_vars
    /\ WF_vars(ObserverCallback)
    /\ WF_vars(ApplyFiltersTimer)
    /\ WF_vars(LookupAnswered)

\* C30: while the extension is enabled and the configuration fixed, once a
\* card is decorated the decorated cards eventually carry the de-emphasis
\* class exactly when the grey-out rule holds for their scores, also when the
\* response came after every applyFilters timer had run.
C30_LateDecorationEventuallyFiltered ==
    (panierclairEnabled /\ Decorated # {}) ~> ClassesFollowRule

\* The response decorated the card after the last applyFilters timer ran:
\* the rule asks for the class and the card does not carry it yet.
C30_Witness ==
    /\ panierclairEnabled
    /\ filterTimers = 0
    /\ \E i \in Decorated : GreyOutRule(cards[i]) /\ ~cards[i].filteredOut

-----------------------------------------------------------------------------
(* Claims on overlapping scans and quiescence                               *)

\* The cards after lookup a was answered and then lookup b, both by a
\* resolver that knows the barcodes of hits with the scores t.
AnsweredInOrder(a, b, hits, t) ==
    LET first == LookupCallback(cards, a, Some(ProductInfos(a, hits, t)))
    IN  LookupCallback(first, b, Some(ProductInfos(b, hits, t)))

-----------------------------------------------------------------------------
(* Further claims on the filter engine, checked under SpecFilter            *)

\* C32: when an active axis carries an unknown, not-applicable or na score,
\* matchesFilter is false whatever the other axes are; so no product both
\* matches and has an unknown score on an active axis, and such a product is
\* greyed exactly when greyFilterUnknown is set.
C32_UnknownOnActiveAxisNeverMatches ==
    \A i \in Decorated :
        LET unknownActive == \E a \in Axes : AxisActive(a) /\ AxisUnknown(cards[i], a)
            matches       == matchesFilter(cards[i].scores[1], currentFilters)
        IN  /\ unknownActive => ~matches
            /\ ~(matches /\ hasUnknownForActiveFilter(cards[i].scores[1], currentFilters))
            /\ (unknownActive /\ FiltersApplied)
                  => (cards[i].filteredOut = currentFilters.greyFilterUnknown)

\* The nutrition axis is satisfied, the eco axis is active with an unknown
\* score, and the card was greyed because greyFilterUnknown is set.
C32_Witness ==
    /\ FiltersApplied
    /\ currentFilters.greyFilterUnknown
    /\ currentFilters.nutriscore = <<"c">>
    /\ currentFilters.ecoscore = <<"b">>
    /\ cards[1].scores # Null
    /\ cards[1].scores[1].nutri = <<"a">>
    /\ AxisUnknown(cards[1], "eco")
    /\ cards[1].filteredOut

\* Nothing of the orchestrator is pending: no debounce timer, no applyFilters
\* timer, no lookup in flight.
Quiescent ==
    /\ ~debounceTimer
    /\ filterTimers = 0
    /\ pending = << >>

\* C33: when the page stops changing and no message arrives, the orchestrator
\* comes to rest and stays there: from some point on no debounce timer, no
\* applyFilters timer and no lookup is pending, and once the storage callback
\* has run no scan runs and no lookup is sent from a state at rest, also when
\* the resolver misses barcodes. The scans are the first one and at most one
\* for each change the extension makes to a card: loader in, loader out,
\* panel in.
C33_OrchestratorReachesQuiescence ==
    /\ <>[]Quiescent
    /\ [][(initialized /\ Quiescent) => (scanCount' = scanCount /\ pending' = pending)]_vars
    /\ [][scanCount' <= 1 + 3 * Len(cards)]_vars

\* At rest after a resolver miss: the loader was removed, the card was
\* scanned again and stays undecorated.
C33_Witness ==
    /\ Quiescent
    /\ initialized /\ panierclairEnabled
    /\ scanCount >= 2
    /\ \E i \in 1..Len(cards) :
          /\ cards[i].loaderAdded
          /\ cards[i].loaders = 0
          /\ cards[i].scores = Null

-----------------------------------------------------------------------------
(* Claims on loaders and panels, checked under Spec                         *)

\* C34: once the callback of a lookup has run, whatever the response was (a
\* products array, an empty one, or no products at all), no card of that
\* lookup's scan still shows a loader.
C34_NoLoaderAfterLookupCallback ==
    [][\A k \in 1..Len(pending) :
          (Len(pending') < Len(pending) /\ pending' = RemoveAt(pending, k))
              => \A i \in LookupCards(pending[k]) : cards'[i].loaders = 0]_vars

\* C35: no card shows a loader and an info panel at the same time, every
\* processed card has its loaderAdded flag set, and no step puts a loader
\* into a card that holds a panel.
C35_LoaderAndPanelExclusive ==
    /\ [](\A i \in 1..Len(cards) :
             /\ ~(cards[i].loaders > 0 /\ Len(cards[i].panels) > 0)
             /\ cards[i].processed => cards[i].loaderAdded)
    /\ [][\A i \in 1..Len(cards) :
             Len(cards[i].panels) > 0 => cards'[i].loaders = 0]_vars

\* A card that showed its loader is scanned again after the response put the
\* panel in its place.
C35_Witness ==
    /\ scanCount >= 2
    /\ pending # << >>
    /\ \E i \in LookupCards(pending[1]) :
          /\ cards[i].processed
          /\ Len(cards[i].panels) = 1
          /\ cards[i].loaders = 0

-----------------------------------------------------------------------------
(* Claims on applyFilters and the compact message, checked under Spec       *)

\* The cards with the de-emphasis class of every decorated card set to had.
WithClass(cs, had) ==
    [i \in 1..Len(cs) |->
        IF cs[i].scores = Null THEN cs[i] ELSE [cs[i] EXCEPT !.filteredOut = had]]

\* C36: the de-emphasis class an applyFilters run leaves on a decorated card
\* is decided by the enabled flag, the configuration and the card's stored
\* scores: the run ends in the same cards whether they carried the class
\* before or not, and a second run right after it changes nothing.
C36_ClassIsFunctionOfEnabledConfigScores ==
    [][filterTimers' < filterTimers =>
          /\ \A i \in Decorated :
                cards'[i].filteredOut = (panierclairEnabled /\ GreyOutRule(cards[i]))
          /\ \A had \in BOOLEAN :
                applyFilters(WithClass(cards, had), panierclairEnabled, currentFilters)
                   = cards'
          /\ applyFilters(cards', panierclairEnabled', currentFilters') = cards']_vars

\* Every applyFilters timer has run, after more than one scan, and left the
\* class on a decorated card.
C36_Witness ==
    /\ panierclairEnabled
    /\ filterTimers = 0
    /\ scanCount >= 2
    /\ \E i \in Decorated : cards[i].filteredOut

\* The configuration with the threshold of axis a replaced by w.
WithThreshold(f, a, w) ==
    CASE a = "nutri" -> [f EXCEPT !.nutriscore = w]
      [] a = "eco"   -> [f EXCEPT !.ecoscore = w]
      [] a = "nova"  -> [f EXCEPT !.nova = w]

\* The stored scores with the score of axis a replaced by v.
WithScore(scores, a, v) ==
    CASE a = "nutri" -> [scores EXCEPT !.nutri = v]
      [] a = "eco"   -> [scores EXCEPT !.eco = v]
      [] a = "nova"  -> [scores EXCEPT !.nova = v]

Grades(a) == {AxisRanking(a)[k] : k \in 1..Len(AxisRanking(a))}

\* The ranked thresholds of axis a that are no stricter than its current one.
WorseThresholds(a) ==
    {w \in Grades(a) : /\ Rank(a, AxisFilter(a)) > 0
                       /\ Rank(a, w) >= Rank(a, AxisFilter(a))}

\* The ranked scores of axis a that are no worse than the card's known score.
BetterScores(card, a) ==
    {v \in Grades(a) : /\ ~AxisUnknown(card, a)
                       /\ Rank(a, AxisScore(card, a)) > 0
                       /\ Rank(a, v) <= Rank(a, AxisScore(card, a))}

OrBetterMode ==
    /\ ~currentFilters.nutriscoreOnly
    /\ ~currentFilters.ecoscoreOnly
    /\ ~currentFilters.novaOnly

NotGreyed(i) == FiltersApplied /\ OrBetterMode /\ ~cards[i].filteredOut

\* A worse threshold on one axis, or a better score, keeps a not-greyed
\* product not greyed.
MonotoneInGrades(i) ==
    \A a \in Axes :
        /\ \A w \in WorseThresholds(a) :
              ~shouldGreyOut(cards[i].scores[1], WithThreshold(currentFilters, a, w))
        /\ \A v \in BetterScores(cards[i], a) :
              ~shouldGreyOut(WithScore(cards[i].scores[1], a, v), currentFilters)

\* C37 (as stated): in or-better mode, relaxing one axis' threshold to a worse
\* grade or to 'any', or replacing a known score by a better ranked one, never
\* turns a not-greyed product into a greyed one.
C37_OrBetterMonotone ==
    \A i \in Decorated :
        NotGreyed(i) =>
            /\ MonotoneInGrades(i)
            /\ \A a \in Axes :
                  ~shouldGreyOut(cards[i].scores[1], WithThreshold(currentFilters, a, ANY))

\* C37 (amended): the same, except that setting to 'any' an active axis on
\* which the product's score is unknown can grey the product: while that axis
\* was active, the unknown score kept the product from being greyed for what
\* another axis fails.
C37_OrBetterMonotoneUnlessUnknownAxisDropped ==
    \A i \in Decorated :
        NotGreyed(i) =>
            /\ MonotoneInGrades(i)
            /\ \A a \in Axes :
                  ~(AxisActive(a) /\ AxisUnknown(cards[i], a))
                     => ~shouldGreyOut(cards[i].scores[1],
                                       WithThreshold(currentFilters, a, ANY))

\* A product at the threshold of an active axis is not greyed, and the axis
\* has worse thresholds and better scores to move to.
C37_Witness ==
    /\ NotGreyed(1)
    /\ currentFilters.ecoscore = <<"b">>
    /\ cards[1].scores[1].eco = <<"b">>
    /\ currentFilters.nutriscore = <<"c">>
    /\ cards[1].scores[1].nutri = <<"a">>

Variants(card) == [k \in 1..Len(card.panels) |-> card.panels[k].variant]

\* What a compact message does besides scanning: the flag and the body class
\* take the value of the message, or flip when it carries none; the panels of
\* the processed cards stay as they are. And no later step, the response to
\* the scan included, changes the variants of a processed card's panels.
CompactFrame(compactField) ==
    /\ panierclairCompact'
          = (IF compactField # Null THEN compactField[1] ELSE ~panierclairCompact)
    /\ bodyCompact' = panierclairCompact'
    /\ \A i \in 1..Len(cards) :
          cards[i].processed => cards'[i].panels = cards[i].panels

ProcessedKeepVariants ==
    \A i \in 1..Len(cards) :
        cards[i].processed => Variants(cards'[i]) = Variants(cards[i])

\* C38 (as stated): a compact message updates the compact flag and the body
\* class and triggers a scan, and the panel of every card already processed
\* keeps the variant it was created with.
C38_CompactMessageScansAndKeepsPanels ==
    /\ [][\A c \in StoredSwitches :
             CompactMessage(c) => (CompactFrame(c) /\ scanCount' = scanCount + 1)]_vars
    /\ [][ProcessedKeepVariants]_vars

\* C38 (amended): the same, but the message triggers a scan only while the
\* extension is enabled and a store was detected.
C38_CompactMessageScansWhenEnabled ==
    /\ [][\A c \in StoredSwitches :
             CompactMessage(c) =>
                 /\ CompactFrame(c)
                 /\ (scanCount' = scanCount + 1)
                       <=> (panierclairEnabled /\ currentStore # "none")]_vars
    /\ [][ProcessedKeepVariants]_vars

\* Compact mode was switched on after a card got its full panel, and the scan
\* the message triggered is still waiting for its response.
C38_Witness ==
    /\ panierclairCompact /\ bodyCompact
    /\ pending # << >>
    /\ pending[Len(pending)].isCompact
    /\ \E i \in LookupCards(pending[Len(pending)]) :
          /\ cards[i].processed
          /\ Variants(cards[i]) = <<"full">>

-----------------------------------------------------------------------------
(* Specification SpecToggle: the content script src/content.ts              *)
(*                                                                          *)
(* The content script without compact mode and filters: its state is the    *)
(* enabled flag, the store and the cards; panierclairCompact, currentFilters *)
(* and filterTimers keep their initial values. The stores and the response  *)
(* callback are those of Spec. The page has one card and the script starts  *)
(* as in SpecLate.                                                          *)

\* processProductGrid() of content.ts: no applyFilters timer is scheduled.
ContentProcessProductGrid(store, enabled, cs, pend) ==
    processProductGrid(store, enabled, cs, pend, FALSE)

\* The callback of chrome.storage.local.get(['panierclairEnabled']).
ContentStorageLoaded(storedEnabled) ==
    /\ ~initialized
    /\ LET enabled == IF storedEnabled # Null THEN storedEnabled[1] ELSE TRUE
           shown   == SetPanelsDisplay(cards, enabled)
           store   == initializeStore(shown)
           grid    == ContentProcessProductGrid(store, enabled, shown, pending)
       IN  /\ panierclairEnabled' = enabled
           /\ currentStore' = store
           /\ initialized' = TRUE
           /\ observing' = TRUE
           /\ cards' = grid.cards
           /\ pending' = grid.pending
           /\ debounceTimer' = ObservedBy(TRUE, shown, grid.cards, debounceTimer)
           /\ scanCount' = IF grid.ran THEN scanCount + 1 ELSE scanCount
    /\ UNCHANGED <<panierclairCompact, currentFilters, bodyCompact, styleInjected,
                   filterTimers, extracted, results, debounceVars, dom>>

\* onMessage of content.ts, message.type === 'panierclair-toggle': the flag
\* is flipped, the panels follow message.enabled.
ContentToggleMessage(enabledField) ==
    /\ scanCount < MaxScans
    /\ Len(pending) < MaxPending
    /\ LET flipped == IF panierclairEnabled THEN FALSE ELSE TRUE
           show    == enabledField = Some(TRUE)
           shown   == SetPanelsDisplay(cards, show)
           grid    == IF show
                      THEN ContentProcessProductGrid(currentStore, flipped, shown, pending)
                      ELSE [cards |-> shown, pending |-> pending, ran |-> FALSE]
       IN  /\ panierclairEnabled' = flipped
           /\ cards' = grid.cards
           /\ pending' = grid.pending
           /\ scanCount' = IF grid.ran THEN scanCount + 1 ELSE scanCount
           /\ debounceTimer' = ObservedBy(observing, shown, grid.cards, debounceTimer)
    /\ UNCHANGED <<panierclairCompact, currentFilters, currentStore, initialized,
                   observing, bodyCompact, styleInjected, filterTimers, extracted,
                   results, debounceVars, dom>>

\* The debounced observer callback of content.ts.
ContentObserverCallback ==
    /\ debounceTimer
    /\ scanCount < MaxScans
    /\ Len(pending) < MaxPending
    /\ LET grid == ContentProcessProductGrid(currentStore, panierclairEnabled, cards,
                                             pending)
       IN  /\ cards' = grid.cards
           /\ pending' = grid.pending
           /\ scanCount' = IF grid.ran THEN scanCount + 1 ELSE scanCount
    /\ debounceTimer' = FALSE
    /\ observing' = TRUE
    /\ UNCHANGED <<panierclairEnabled, panierclairCompact, currentFilters, currentStore,
                   initialized, bodyCompact, styleInjected, filterTimers, extracted,
                   results, debounceVars, dom>>

NextToggle ==
    \/ \E e \in StoredSwitches : ContentStorageLoaded(e)
    \/ \E e \in StoredSwitches : ContentToggleMessage(e)
    \/ ContentObserverCallback
    \/ LookupAnswered

SpecToggle == InitLate /\ [][NextToggle]_vars

\* C39: once the stored flag is loaded, after a toggle message is handled by
\* content.ts panierclairEnabled equals the enabled value of that message,
\* and so the info panels are displayed exactly when panierclairEnabled is
\* true.
C39_FlagEqualsLastToggleMessage ==
    /\ [][\A e \in BOOLEAN :
             (initialized /\ ContentToggleMessage(Some(e))) =>
                 /\ panierclairEnabled' = e
                 /\ \A i \in 1..Len(cards') : \A k \in 1..Len(cards'[i].panels) :
                       (cards'[i].panels[k].display = "") = panierclairEnabled']_vars

====
